---- MODULE Spec2Model ----
(***************************************************************************)
(* Collaborative canvas: the server-authoritative operation log per room,  *)
(* the socket message handlers that mutate and relay it, and the client    *)
(* mirror that consumes the relayed events.                                 *)
(*                                                                         *)
(* Sources: src/server/drawing-state.ts (DrawingStateManager),             *)
(* src/server/server.ts (socket handlers), src/unnamed/part_000            *)
(* (RoomManager), src/client/main.ts (WebSocketManager, CanvasManager).    *)
(***************************************************************************)
EXTENDS Integers, Sequences, FiniteSets, TLC

(***************************************************************************)
(* Bounds of the model.                                                    *)
(***************************************************************************)
\* number of socket connections that may ever be opened
MaxConns == 3
\* number of events (messages, connections, timer and clock events) the server
\* handles in a run of Spec
MaxMsgs == 5
\* the same two bounds for SpecLog
MaxLogConns == 2
MaxLogMsgs == 6
\* SpecFull starts with a log that is this many entries short of capacity, or full
Headroom == 1
\* number of events the server handles in a run of SpecFull
MaxFullMsgs == 4
\* number of user inputs (connects and mouse events) in a run of SpecSync
MaxSyncInputs == 6
\* SpecLong starts with a stroke whose path is this many points short of the
\* cap, or at the cap
PathHeadroom == 1
\* number of user inputs in a run of SpecLong
MaxLongInputs == 3
\* number of user inputs in a run of SpecTools
MaxToolInputs == 5
\* number of messages the server handles in a run of SpecPaths
MaxPathMsgs == 3
\* number of user inputs in a run of SpecEdit
MaxEditInputs == 6
\* SpecColors starts with the palette used up, or up to ColorHeadroom short of it
ColorHeadroom == 1
\* number of messages the server handles in a run of SpecColors
MaxColorMsgs == 4

(***************************************************************************)
(* Program constants.                                                      *)
(***************************************************************************)
MAX_OPERATIONS == 500
USER_TIMEOUT == 30000
MAX_PATH_POINTS == 10000
MAX_ROOM_ID_LENGTH == 50
MIN_LINE_WIDTH == 1
MAX_LINE_WIDTH == 100
DEFAULT_LINE_WIDTH == 5

DEFAULT_ROOM == <<"d", "e", "f", "a", "u", "l", "t">>

DEFAULT_COLORS ==
    <<"#FF6B6B", "#4ECDC4", "#45B7D1", "#FFA07A", "#98D8C8",
      "#F7DC6F", "#BB8FCE", "#85C1E2", "#F8B739", "#52BE80">>

(***************************************************************************)
(* Values.                                                                 *)
(***************************************************************************)
\* socket ids of the connections of this run; a socket id is never reused
Conns == 1..MaxConns
\* socket ids of sessions that ended before the run (authors of old entries)
PastUsers == {-2, -1}

Max(a, b) == IF a >= b THEN a ELSE b
Min(a, b) == IF a <= b THEN a ELSE b

\* A JavaScript value where a number is expected: a number, NaN, a string
\* that is not a numeral ("abc"), or undefined.
Num(n) == [t |-> "num", n |-> n]
NaN == [t |-> "nan", n |-> 0]
Str == [t |-> "str", n |-> 0]
Undef == [t |-> "undef", n |-> 0]

\* JavaScript truthiness (the left operand of ||)
Truthy(v) ==
    CASE v.t = "num" -> v.n # 0
      [] v.t = "str" -> TRUE
      [] OTHER -> FALSE

\* a || b
OrElse(a, b) == IF Truthy(a) THEN a ELSE b

\* ToNumber: a non-numeral string and undefined convert to NaN
ToNumber(v) == IF v.t = "num" THEN v ELSE NaN

\* Math.min / Math.max of two arguments: NaN if either converts to NaN
MathMin(a, b) ==
    IF ToNumber(a).t = "nan" \/ ToNumber(b).t = "nan" THEN NaN
    ELSE Num(Min(ToNumber(a).n, ToNumber(b).n))

MathMax(a, b) ==
    IF ToNumber(a).t = "nan" \/ ToNumber(b).t = "nan" THEN NaN
    ELSE Num(Max(ToNumber(a).n, ToNumber(b).n))

\* A point as it arrives: k = "num" when it is an object with numeric x and
\* y, "bad" when it is an object whose x or y is not a number, "none" when
\* the field is absent.
Pt(x, y) == [k |-> "num", x |-> x, y |-> y]
BadPt == [k |-> "bad", x |-> 0, y |-> 0]
NoPt == [k |-> "none", x |-> 0, y |-> 0]

\* operation ids: client-supplied strings, server uuids, or absent
\* (generateId of a client yields `${Date.now()}-${random}`: GenId(c, k) for the
\* k-th id of client c)
CId(n) == <<"c", 0, n>>
Uuid(n) == <<"s", 0, n>>
GenId(c, k) == <<"g", c, k>>
NoId == <<"none", 0, 0>>

\* user names: the connection default `User ${socket.id...}`, a chosen name, or none
DefaultName(c) == <<"User", c>>
Name(n) == <<"name", n>>
NoName == <<"none", 0>>


(***************************************************************************)
(* State.                                                                  *)
(***************************************************************************)
VARIABLES
    rooms,          \* DrawingStateManager.rooms: room id -> RoomState
    rmRooms,        \* RoomManager.rooms: the room ids that have a RoomConfig
    userColors,     \* RoomManager.userColors: user id -> color
    colorIndex,     \* RoomManager.colorIndex
    status,         \* per socket: "new" (not yet connected), "open", "closed"
    currentRoom,    \* per socket: the connection closure's currentRoom
    userName,       \* per socket: the connection closure's userName
    userColor,      \* per socket: the connection closure's const userColor
    joined,         \* per socket: the transport rooms the socket is a member of
    nextUuid,       \* number of uuids drawn so far: uuidv4() never repeats
    now,            \* Date.now() of the server
    inbox,          \* per socket: events emitted to it and not yet handled by its client
    outbox,         \* per socket: messages its client sent and the server has not yet handled
    canvas,         \* per client: the CanvasManager
    ws,             \* per client: the WebSocketManager (userId, users)
    nInputs,        \* number of user inputs (connects, mouse events) so far
    sentPoints,     \* history: operation id -> the points its author sent for it, in order
    ended,          \* history: the operation ids whose draw-end the server has handled
    snapEnded,      \* history: per socket, the value of ended when its Snapshot was emitted
    snapOps,        \* history: per socket, the operations of the Snapshot emitted to it last
    cleared,        \* history: the <<room, operation id>> a handled clear-canvas took out of a log
    nMsgs,          \* number of events the server has handled so far
    lastMsg,        \* the message the server handled last
    emitted         \* the emit calls of that handler, in order

serverVars ==
    <<rooms, rmRooms, userColors, colorIndex, status, currentRoom, userName,
      userColor, joined, nextUuid, now, nMsgs, lastMsg, emitted>>

clientVars == <<inbox, outbox, canvas, ws, nInputs, sentPoints, ended, snapEnded, snapOps, cleared>>

vars == <<serverVars, clientVars>>

\* the empty Map
EmptyMap == [k \in {} |-> 0]

\* Map.set(k, v)
MapSet(m, k, v) == [x \in (DOMAIN m) \cup {k} |-> IF x = k THEN v ELSE m[x]]

\* Map.delete(k)
MapDelete(m, k) == [x \in (DOMAIN m) \ {k} |-> m[x]]

(***************************************************************************)
(* DrawingStateManager (src/server/drawing-state.ts).  Each operator takes *)
(* the rooms map and returns the rooms map after the call.                 *)
(***************************************************************************)
NewRoomState == [operations |-> <<>>, users |-> EmptyMap]

\* getRoomState creates the room on first reference
getRoomState(rs, roomId) ==
    IF roomId \in DOMAIN rs THEN rs ELSE MapSet(rs, roomId, NewRoomState)

SetOperations(rs, roomId, ops) ==
    [getRoomState(rs, roomId) EXCEPT ![roomId].operations = ops]

SetUsers(rs, roomId, us) ==
    [getRoomState(rs, roomId) EXCEPT ![roomId].users = us]

\* Array.shift()
Shift(s) == SubSeq(s, 2, Len(s))

\* Array.splice(index, 1), index counted from 1
Splice1(s, i) == SubSeq(s, 1, i - 1) \o SubSeq(s, i + 1, Len(s))

\* a faulty addOperation: at capacity the entry just pushed is dropped (pop
\* where the code shifts)
PushAndTrimNewest(ops, operation) ==
    IF Len(Append(ops, operation)) > MAX_OPERATIONS
    THEN ops
    ELSE Append(ops, operation)

PushAndTrim(ops, operation) ==
    IF Len(Append(ops, operation)) > MAX_OPERATIONS
    THEN Shift(Append(ops, operation))
    ELSE Append(ops, operation)

\* a faulty addOperation that puts the new entry at the head (unshift where
\* the code pushes) and trims at the tail
addOperationAtHead(rs, roomId, operation) ==
    LET ops == << operation >> \o getRoomState(rs, roomId)[roomId].operations
    IN  SetOperations(rs, roomId,
            IF Len(ops) > MAX_OPERATIONS THEN SubSeq(ops, 1, MAX_OPERATIONS) ELSE ops)

\* addOperation: push, then shift while the log is over MAX_OPERATIONS
addOperation(rs, roomId, operation) ==
    SetOperations(rs, roomId,
        PushAndTrim(getRoomState(rs, roomId)[roomId].operations, operation))

\* the index the scan of undoOperation stops at, counted from 1 (0 when the
\* log is empty or the scan runs off the head): the scan starts at the tail
\* and steps towards the head while operations[index].userId !== userId, so
\* it stops at the last index whose userId is userId
OwnIndexes(ops, userId) == {i \in 1..Len(ops) : ops[i].userId = userId}

\* a faulty scan that runs from the head: it stops at the first own entry
UndoIndexFromHead(ops, userId) ==
    IF OwnIndexes(ops, userId) = {} THEN 0
    ELSE CHOOSE i \in OwnIndexes(ops, userId) : \A j \in OwnIndexes(ops, userId) : i <= j

\* a faulty scan that ignores the author: it stops at the tail
UndoIndexAnyAuthor(ops, userId) == Len(ops)

UndoIndex(ops, userId) ==
    IF OwnIndexes(ops, userId) = {} THEN 0
    ELSE CHOOSE i \in OwnIndexes(ops, userId) : \A j \in OwnIndexes(ops, userId) : j <= i

\* undoOperation: [found, operation, rooms]
undoOperation(rs, roomId, userId) ==
    LET st == getRoomState(rs, roomId)
        ops == st[roomId].operations
        index == UndoIndex(ops, userId)
    IN  IF index = 0
        THEN [found |-> FALSE, rooms |-> st]
        ELSE [found |-> TRUE, operation |-> ops[index],
              rooms |-> SetOperations(st, roomId, Splice1(ops, index))]

addUser(rs, roomId, userId, name, color, time) ==
    LET st == getRoomState(rs, roomId)
    IN  SetUsers(st, roomId,
            MapSet(st[roomId].users, userId,
                [id |-> userId, name |-> name, color |-> color,
                 cursorPosition |-> NoPt, lastSeen |-> time]))

removeUser(rs, roomId, userId) ==
    LET st == getRoomState(rs, roomId)
    IN  SetUsers(st, roomId, MapDelete(st[roomId].users, userId))

updateUserCursor(rs, roomId, userId, position, time) ==
    LET st == getRoomState(rs, roomId)
    IN  IF userId \in DOMAIN st[roomId].users
        THEN [st EXCEPT ![roomId].users[userId].cursorPosition = position,
                        ![roomId].users[userId].lastSeen = time]
        ELSE st

\* a faulty snapshot that hands out each path as draw-start stored it, with
\* its first point only
getStateSnapshotOfStarts(rs, roomId) ==
    LET st == getRoomState(rs, roomId)
        asStarted(op) == IF op.hasPath /\ Len(op.path) > 1
                         THEN [op EXCEPT !.path = << op.path[1] >>] ELSE op
    IN  [operations |-> [i \in 1..Len(st[roomId].operations) |->
                            asStarted(st[roomId].operations[i])],
         users |-> {st[roomId].users[u] : u \in DOMAIN st[roomId].users}]

\* a faulty snapshot that leaves the newest entry of the log out
getStateSnapshotButNewest(rs, roomId) ==
    LET st == getRoomState(rs, roomId)
        ops == st[roomId].operations
    IN  [operations |-> SubSeq(ops, 1, Len(ops) - 1),
         users |-> {st[roomId].users[u] : u \in DOMAIN st[roomId].users}]

\* a faulty snapshot that hands the log out newest first
getStateSnapshotNewestFirst(rs, roomId) ==
    LET st == getRoomState(rs, roomId)
        ops == st[roomId].operations
    IN  [operations |-> [i \in 1..Len(ops) |-> ops[Len(ops) + 1 - i]],
         users |-> {st[roomId].users[u] : u \in DOMAIN st[roomId].users}]

\* getStateSnapshot: the copy of the log and the users array, read as a set
getStateSnapshot(rs, roomId) ==
    LET st == getRoomState(rs, roomId)
    IN  [operations |-> st[roomId].operations,
         users |-> {st[roomId].users[u] : u \in DOMAIN st[roomId].users}]

(***************************************************************************)
(* RoomManager (src/unnamed/part_000).                                     *)
(***************************************************************************)
\* a faulty assignment that takes the palette entry after the bindings held
AssignedColorByBindings(colors, index, userId) ==
    IF userId \in DOMAIN colors
    THEN colors[userId]
    ELSE DEFAULT_COLORS[(Cardinality(DOMAIN colors) % Len(DEFAULT_COLORS)) + 1]

\* the color assignUserColor returns
AssignedColor(colors, index, userId) ==
    IF userId \in DOMAIN colors
    THEN colors[userId]
    ELSE DEFAULT_COLORS[(index % Len(DEFAULT_COLORS)) + 1]

\* userColors after assignUserColor
ColorsAfterAssign(colors, index, userId) ==
    IF userId \in DOMAIN colors
    THEN colors
    ELSE MapSet(colors, userId, AssignedColor(colors, index, userId))

\* colorIndex after assignUserColor
IndexAfterAssign(colors, index, userId) ==
    IF userId \in DOMAIN colors THEN index ELSE index + 1

releaseUserColor(colors, userId) == MapDelete(colors, userId)

(***************************************************************************)
(* Transport: socket.io rooms and emit.                                    *)
(***************************************************************************)
\* the sockets that are members of a transport room
Members(j, room) == {d \in Conns : room \in j[d]}

\* a faulty socket.to that does not leave the socket out
SocketToEveryone(j, c, room) == Members(j, room)

\* a faulty io.to that reaches every socket that is in some room (io.emit)
IoToAllRooms(j, room) == {d \in Conns : j[d] # {}}

\* io.to(room): every member; socket.to(room): every member but the socket
IoTo(j, room) == Members(j, room)
SocketTo(j, c, room) == Members(j, room) \ {c}

Emit(to, event, payload) == [to |-> to, event |-> event, payload |-> payload]


Msg(c, event, data) == [from |-> c, event |-> event, data |-> data]

NoColor == "none"

(***************************************************************************)
(* io.on('connection') (src/server/server.ts:53-80)                        *)
(***************************************************************************)
Connect(c) ==
    /\ status[c] = "new"
    /\ LET color == AssignedColor(userColors, colorIndex, c)
           j == [joined EXCEPT ![c] = @ \cup {DEFAULT_ROOM}]
           stateSnapshot == getStateSnapshot(rooms, DEFAULT_ROOM)
       IN  /\ status' = [status EXCEPT ![c] = "open"]
           /\ currentRoom' = [currentRoom EXCEPT ![c] = DEFAULT_ROOM]
           /\ userName' = [userName EXCEPT ![c] = DefaultName(c)]
           /\ userColor' = [userColor EXCEPT ![c] = color]
           /\ rmRooms' = rmRooms \cup {DEFAULT_ROOM}
           /\ userColors' = ColorsAfterAssign(userColors, colorIndex, c)
           /\ colorIndex' = IndexAfterAssign(userColors, colorIndex, c)
           /\ joined' = j
           /\ rooms' = addUser(rooms, DEFAULT_ROOM, c, DefaultName(c), color, now)
           /\ emitted' =
                << Emit({c}, "room-state", stateSnapshot),
                   Emit(SocketTo(j, c, DEFAULT_ROOM), "user-joined",
                        [userId |-> c, userName |-> DefaultName(c), color |-> color]) >>
    /\ lastMsg' = Msg(c, "connection", [none |-> TRUE])
    /\ UNCHANGED <<nextUuid, now>>

(***************************************************************************)
(* socket.on('join-room') (src/server/server.ts:83-133)                    *)
(***************************************************************************)
Letters ==
    {"a", "b", "c", "d", "e", "f", "g", "h", "i", "j", "k", "l", "m",
     "n", "o", "p", "q", "r", "s", "t", "u", "v", "w", "x", "y", "z",
     "A", "B", "C", "D", "E", "F", "G", "H", "I", "J", "K", "L", "M",
     "N", "O", "P", "Q", "R", "S", "T", "U", "V", "W", "X", "Y", "Z"}

Digits == {"0", "1", "2", "3", "4", "5", "6", "7", "8", "9"}

\* the characters the pattern /[^a-zA-Z0-9-_]/g keeps
RoomIdChars == Letters \cup Digits \cup {"-", "_"}

IsRoomIdChar(ch) == ch \in RoomIdChars

\* roomId.replace(/[^a-zA-Z0-9-_]/g, '')
Sanitize(roomId) == SelectSeq(roomId, IsRoomIdChar)

\* a faulty first check whose length limit is off by one
RoomIdRejectedLate(roomId) == Len(roomId) = 0 \/ Len(roomId) > MAX_ROOM_ID_LENGTH + 1

\* the first check: !roomId || roomId.length > 50
RoomIdRejected(roomId) == Len(roomId) = 0 \/ Len(roomId) > MAX_ROOM_ID_LENGTH

\* the message of the error event join-room answers with, "" when it accepts
JoinRoomError(roomId) ==
    IF RoomIdRejected(roomId) THEN "Invalid room ID"
    ELSE IF Sanitize(roomId) # roomId THEN "Room ID contains invalid characters"
    ELSE ""

OnJoinRoom(c, data) ==
    /\ status[c] = "open"
    /\ lastMsg' = Msg(c, "join-room", data)
    /\ IF JoinRoomError(data.roomId) # ""
       THEN /\ emitted' = << Emit({c}, "error", [message |-> JoinRoomError(data.roomId)]) >>
            /\ UNCHANGED <<rooms, rmRooms, userColors, colorIndex, status, currentRoom,
                           userName, userColor, joined, nextUuid, now>>
       ELSE LET roomId == data.roomId
                left == [joined EXCEPT ![c] = @ \ {currentRoom[c]}]
                name == IF data.userName # NoName THEN data.userName ELSE userName[c]
                j == [left EXCEPT ![c] = @ \cup {roomId}]
                newUserColor == AssignedColor(userColors, colorIndex, c)
                rs == addUser(rooms, roomId, c, name, newUserColor, now)
            IN  /\ joined' = j
                /\ currentRoom' = [currentRoom EXCEPT ![c] = roomId]
                /\ rmRooms' = rmRooms \cup {roomId}
                /\ userName' = [userName EXCEPT ![c] = name]
                /\ userColors' = ColorsAfterAssign(userColors, colorIndex, c)
                /\ colorIndex' = IndexAfterAssign(userColors, colorIndex, c)
                /\ rooms' = rs
                /\ emitted' =
                     << Emit(SocketTo(left, c, currentRoom[c]), "user-left", [userId |-> c]),
                        Emit({c}, "room-state", getStateSnapshot(rs, roomId)),
                        Emit(SocketTo(j, c, roomId), "user-joined",
                             [userId |-> c, userName |-> name, color |-> newUserColor]) >>
                /\ UNCHANGED <<status, userColor, nextUuid, now>>


(***************************************************************************)
(* DrawingOperation (src/server/drawing-state.ts:3-19).  Fields the        *)
(* handlers never read or compare (color, fontSize, image size) are left   *)
(* out; text and imageData keep only whether they are present.             *)
(***************************************************************************)
BlankOperation ==
    [id |-> NoId, userId |-> 0, type |-> "", timestamp |-> 0,
     hasPath |-> FALSE, path |-> <<>>, lineWidth |-> Undef,
     startPoint |-> NoPt, endPoint |-> NoPt, text |-> FALSE, imageData |-> FALSE]

\* Math.max(0, x) on both coordinates
ClampPoint(p) == Pt(Max(0, p.x), Max(0, p.y))

\* Math.max(1, Math.min(100, data.lineWidth || 5))
ClampLineWidth(w) ==
    MathMax(Num(MIN_LINE_WIDTH), MathMin(Num(MAX_LINE_WIDTH), OrElse(w, Num(DEFAULT_LINE_WIDTH))))

\* the frame of a handler that touches neither sessions nor the room registry
SessionsUnchanged ==
    UNCHANGED <<rmRooms, userColors, colorIndex, status, currentRoom, userName,
                userColor, joined, now>>

(***************************************************************************)
(* socket.on('draw-start') (src/server/server.ts:136-172)                  *)
(***************************************************************************)
OnDrawStart(c, data) ==
    /\ status[c] = "open"
    /\ lastMsg' = Msg(c, "draw-start", data)
    /\ SessionsUnchanged
    /\ IF data.point.k # "num"
       THEN /\ emitted' = << Emit({c}, "error", [message |-> "Invalid draw-start data"]) >>
            /\ UNCHANGED <<rooms, nextUuid>>
       ELSE /\ LET operationId == IF data.operationId # NoId
                                  THEN data.operationId ELSE Uuid(nextUuid + 1)
                   operation == [BlankOperation EXCEPT
                                    !.id = operationId,
                                    !.userId = c,
                                    !.type = "draw",
                                    !.timestamp = now,
                                    !.hasPath = TRUE,
                                    !.path = << ClampPoint(data.point) >>,
                                    !.lineWidth = ClampLineWidth(data.lineWidth)]
               IN  /\ nextUuid' = IF data.operationId # NoId THEN nextUuid ELSE nextUuid + 1
                   /\ rooms' = addOperation(rooms, currentRoom[c], operation)
                   /\ emitted' = << Emit(SocketTo(joined, c, currentRoom[c]),
                                         "draw-start", operation) >>

(***************************************************************************)
(* socket.on('draw-progress') (src/server/server.ts:175-212)               *)
(***************************************************************************)
\* Array.find(op => op.id === id) as an index: the first match, 0 if none
IdIndexes(ops, id) == {i \in 1..Len(ops) : ops[i].id = id}

FindIndex(ops, id) ==
    IF IdIndexes(ops, id) = {} THEN 0
    ELSE CHOOSE i \in IdIndexes(ops, id) : \A j \in IdIndexes(ops, id) : i <= j

\* a faulty guard that leaves the ownership test out
ProgressAcceptedAnyOwner(ops, userId, id) ==
    /\ FindIndex(ops, id) # 0
    /\ ops[FindIndex(ops, id)].hasPath
    /\ Len(ops[FindIndex(ops, id)].path) < MAX_PATH_POINTS

\* the guard of the push: the operation exists, belongs to the sender, has a
\* path, and the path is below the cap
ProgressAccepted(ops, userId, id) ==
    /\ FindIndex(ops, id) # 0
    /\ ops[FindIndex(ops, id)].userId = userId
    /\ ops[FindIndex(ops, id)].hasPath
    /\ Len(ops[FindIndex(ops, id)].path) < MAX_PATH_POINTS

OnDrawProgress(c, data) ==
    /\ status[c] = "open"
    /\ lastMsg' = Msg(c, "draw-progress", data)
    /\ SessionsUnchanged
    /\ UNCHANGED <<nextUuid>>
    /\ IF data.operationId = NoId \/ data.point.k # "num"
       THEN /\ emitted' = << >>
            /\ UNCHANGED rooms
       ELSE LET state == getRoomState(rooms, currentRoom[c])
                ops == state[currentRoom[c]].operations
                i == FindIndex(ops, data.operationId)
                newPoint == ClampPoint(data.point)
            IN  IF ProgressAccepted(ops, c, data.operationId)
                THEN /\ rooms' = [state EXCEPT ![currentRoom[c]].operations[i].path =
                                                    Append(@, newPoint)]
                     /\ emitted' = << Emit(SocketTo(joined, c, currentRoom[c]), "draw-progress",
                                           [operationId |-> data.operationId, point |-> newPoint]) >>
                ELSE /\ rooms' = state
                     /\ emitted' = << >>

(***************************************************************************)
(* socket.on('draw-end') (src/server/server.ts:215-220)                    *)
(***************************************************************************)
OnDrawEnd(c, data) ==
    /\ status[c] = "open"
    /\ lastMsg' = Msg(c, "draw-end", data)
    /\ SessionsUnchanged
    /\ UNCHANGED <<rooms, nextUuid>>
    /\ emitted' = << Emit(SocketTo(joined, c, currentRoom[c]), "draw-end",
                          [operationId |-> data.operationId, userId |-> c]) >>

(***************************************************************************)
(* socket.on('erase') (src/server/server.ts:223-235)                       *)
(***************************************************************************)
OnErase(c, data) ==
    /\ status[c] = "open"
    /\ lastMsg' = Msg(c, "erase", data)
    /\ SessionsUnchanged
    /\ LET operation == [BlankOperation EXCEPT
                            !.id = Uuid(nextUuid + 1),
                            !.userId = c,
                            !.type = "erase",
                            !.timestamp = now,
                            !.hasPath = TRUE,
                            !.path = << data.point >>]
       IN  /\ rooms' = addOperation(rooms, currentRoom[c], operation)
           /\ emitted' = << Emit(SocketTo(joined, c, currentRoom[c]), "erase", operation) >>
    /\ nextUuid' = nextUuid + 1

(***************************************************************************)
(* socket.on('shape') (src/server/server.ts:238-261)                       *)
(***************************************************************************)
OnShape(c, operation) ==
    /\ status[c] = "open"
    /\ lastMsg' = Msg(c, "shape", operation)
    /\ SessionsUnchanged
    /\ IF operation.startPoint.k = "none" \/ operation.endPoint.k = "none"
       THEN /\ emitted' = << Emit({c}, "error", [message |-> "Invalid shape data"]) >>
            /\ UNCHANGED <<rooms, nextUuid>>
       ELSE /\ LET shapeOperation == [BlankOperation EXCEPT
                                        !.id = IF operation.id # NoId
                                               THEN operation.id ELSE Uuid(nextUuid + 1),
                                        !.userId = c,
                                        !.type = operation.type,
                                        !.timestamp = now,
                                        !.startPoint = operation.startPoint,
                                        !.endPoint = operation.endPoint,
                                        !.lineWidth = operation.lineWidth]
               IN  /\ rooms' = addOperation(rooms, currentRoom[c], shapeOperation)
                   /\ emitted' = << Emit(SocketTo(joined, c, currentRoom[c]),
                                         "shape", shapeOperation) >>
            /\ nextUuid' = IF operation.id # NoId THEN nextUuid ELSE nextUuid + 1

(***************************************************************************)
(* socket.on('text') and socket.on('image')                                *)
(* (src/server/server.ts:264-276, 279-291): the received object itself is  *)
(* stamped, stored and relayed.                                            *)
(***************************************************************************)
\* a faulty stamp that keeps the userId the client sent when there is one
StampedKeepingAuthor(operation, c, uuid, time) ==
    [operation EXCEPT
        !.id = IF operation.id # NoId THEN operation.id ELSE uuid,
        !.userId = IF operation.userId # 0 THEN operation.userId ELSE c,
        !.timestamp = time]

Stamped(operation, c, uuid, time) ==
    [operation EXCEPT
        !.id = IF operation.id # NoId THEN operation.id ELSE uuid,
        !.userId = c,
        !.timestamp = time]

\* a faulty text handler whose validation forgets the startPoint
OnTextCheckingTextOnly(c, operation) ==
    /\ status[c] = "open"
    /\ lastMsg' = Msg(c, "text", operation)
    /\ SessionsUnchanged
    /\ IF ~operation.text
       THEN /\ emitted' = << Emit({c}, "error", [message |-> "Invalid text data"]) >>
            /\ UNCHANGED <<rooms, nextUuid>>
       ELSE /\ LET stamped == Stamped(operation, c, Uuid(nextUuid + 1), now)
               IN  /\ rooms' = addOperation(rooms, currentRoom[c], stamped)
                   /\ emitted' = << Emit(SocketTo(joined, c, currentRoom[c]), "text", stamped) >>
            /\ nextUuid' = IF operation.id # NoId THEN nextUuid ELSE nextUuid + 1

OnText(c, operation) ==
    /\ status[c] = "open"
    /\ lastMsg' = Msg(c, "text", operation)
    /\ SessionsUnchanged
    /\ IF ~operation.text \/ operation.startPoint.k = "none"
       THEN /\ emitted' = << Emit({c}, "error", [message |-> "Invalid text data"]) >>
            /\ UNCHANGED <<rooms, nextUuid>>
       ELSE /\ LET stamped == Stamped(operation, c, Uuid(nextUuid + 1), now)
               IN  /\ rooms' = addOperation(rooms, currentRoom[c], stamped)
                   /\ emitted' = << Emit(SocketTo(joined, c, currentRoom[c]), "text", stamped) >>
            /\ nextUuid' = IF operation.id # NoId THEN nextUuid ELSE nextUuid + 1

OnImage(c, operation) ==
    /\ status[c] = "open"
    /\ lastMsg' = Msg(c, "image", operation)
    /\ SessionsUnchanged
    /\ IF ~operation.imageData \/ operation.startPoint.k = "none"
       THEN /\ emitted' = << Emit({c}, "error", [message |-> "Invalid image data"]) >>
            /\ UNCHANGED <<rooms, nextUuid>>
       ELSE /\ LET stamped == Stamped(operation, c, Uuid(nextUuid + 1), now)
               IN  /\ rooms' = addOperation(rooms, currentRoom[c], stamped)
                   /\ emitted' = << Emit(SocketTo(joined, c, currentRoom[c]), "image", stamped) >>
            /\ nextUuid' = IF operation.id # NoId THEN nextUuid ELSE nextUuid + 1


(***************************************************************************)
(* socket.on('ping') (src/server/server.ts:294-296)                        *)
(***************************************************************************)
\* a faulty handler that takes the ping for a sign of life and refreshes the
\* sender's lastSeen
OnPingAsHeartbeat(c, timestamp) ==
    /\ status[c] = "open"
    /\ lastMsg' = Msg(c, "ping", timestamp)
    /\ SessionsUnchanged
    /\ UNCHANGED <<nextUuid>>
    /\ rooms' = IF currentRoom[c] \in DOMAIN rooms /\ c \in DOMAIN rooms[currentRoom[c]].users
                THEN [rooms EXCEPT ![currentRoom[c]].users[c].lastSeen = now]
                ELSE rooms
    /\ emitted' = << Emit({c}, "pong", timestamp) >>

OnPing(c, timestamp) ==
    /\ status[c] = "open"
    /\ lastMsg' = Msg(c, "ping", timestamp)
    /\ SessionsUnchanged
    /\ UNCHANGED <<rooms, nextUuid>>
    /\ emitted' = << Emit({c}, "pong", timestamp) >>

(***************************************************************************)
(* socket.on('clear-canvas') (src/server/server.ts:299-311)                *)
(***************************************************************************)
\* a faulty handler that appends the clear operation and keeps the history
OnClearCanvasKeepingLog(c) ==
    /\ status[c] = "open"
    /\ lastMsg' = Msg(c, "clear-canvas", [none |-> TRUE])
    /\ SessionsUnchanged
    /\ LET operation == [BlankOperation EXCEPT
                            !.id = Uuid(nextUuid + 1),
                            !.userId = c,
                            !.type = "clear",
                            !.timestamp = now]
       IN  /\ rooms' = addOperation(rooms, currentRoom[c], operation)
           /\ emitted' = << Emit(IoTo(joined, currentRoom[c]), "clear-canvas", operation) >>
    /\ nextUuid' = nextUuid + 1

\* a faulty handler that clears only what the sender drew
OnClearCanvasOfSender(c) ==
    /\ status[c] = "open"
    /\ lastMsg' = Msg(c, "clear-canvas", [none |-> TRUE])
    /\ SessionsUnchanged
    /\ LET operation == [BlankOperation EXCEPT
                            !.id = Uuid(nextUuid + 1),
                            !.userId = c,
                            !.type = "clear",
                            !.timestamp = now]
           state == getRoomState(rooms, currentRoom[c])
           others == SelectSeq(state[currentRoom[c]].operations,
                               LAMBDA op : op.userId # c)
       IN  /\ rooms' = SetOperations(state, currentRoom[c], Append(others, operation))
           /\ emitted' = << Emit(IoTo(joined, currentRoom[c]), "clear-canvas", operation) >>
    /\ nextUuid' = nextUuid + 1

OnClearCanvas(c) ==
    /\ status[c] = "open"
    /\ lastMsg' = Msg(c, "clear-canvas", [none |-> TRUE])
    /\ SessionsUnchanged
    /\ LET operation == [BlankOperation EXCEPT
                            !.id = Uuid(nextUuid + 1),
                            !.userId = c,
                            !.type = "clear",
                            !.timestamp = now]
           added == addOperation(rooms, currentRoom[c], operation)
       IN  /\ rooms' = SetOperations(added, currentRoom[c], << operation >>)
           /\ emitted' = << Emit(IoTo(joined, currentRoom[c]), "clear-canvas", operation) >>
    /\ nextUuid' = nextUuid + 1

(***************************************************************************)
(* socket.on('cursor-move') (src/server/server.ts:314-321)                 *)
(***************************************************************************)
OnCursorMove(c, data) ==
    /\ status[c] = "open"
    /\ lastMsg' = Msg(c, "cursor-move", data)
    /\ SessionsUnchanged
    /\ UNCHANGED <<nextUuid>>
    /\ rooms' = updateUserCursor(rooms, currentRoom[c], c, data.point, now)
    /\ emitted' = << Emit(SocketTo(joined, c, currentRoom[c]), "cursor-move",
                          [userId |-> c, point |-> data.point, color |-> userColor[c]]) >>

(***************************************************************************)
(* socket.on('undo') (src/server/server.ts:324-340)                        *)
(***************************************************************************)
\* a faulty handler that answers with socket.to where the code uses io.to
OnUndoToOthers(c) ==
    /\ status[c] = "open"
    /\ lastMsg' = Msg(c, "undo", [none |-> TRUE])
    /\ SessionsUnchanged
    /\ UNCHANGED <<nextUuid>>
    /\ LET undone == undoOperation(rooms, currentRoom[c], c)
       IN  /\ rooms' = undone.rooms
           /\ emitted' =
                IF undone.found
                THEN << Emit(SocketTo(joined, c, currentRoom[c]), "undo",
                             [operationId |-> undone.operation.id,
                              userId |-> undone.operation.userId]) >>
                ELSE << >>

OnUndo(c) ==
    /\ status[c] = "open"
    /\ lastMsg' = Msg(c, "undo", [none |-> TRUE])
    /\ SessionsUnchanged
    /\ UNCHANGED <<nextUuid>>
    /\ LET undone == undoOperation(rooms, currentRoom[c], c)
       IN  /\ rooms' = undone.rooms
           /\ emitted' =
                IF undone.found
                THEN << Emit(IoTo(joined, currentRoom[c]), "undo",
                             [operationId |-> undone.operation.id,
                              userId |-> undone.operation.userId]) >>
                ELSE << >>

(***************************************************************************)
(* socket.on('set-name') (src/server/server.ts:343-349)                    *)
(***************************************************************************)
OnSetName(c, data) ==
    /\ status[c] = "open"
    /\ lastMsg' = Msg(c, "set-name", data)
    /\ userName' = [userName EXCEPT ![c] = data.userName]
    /\ emitted' = << Emit(SocketTo(joined, c, currentRoom[c]), "user-name-changed",
                          [userId |-> c, userName |-> data.userName]) >>
    /\ UNCHANGED <<rooms, rmRooms, userColors, colorIndex, status, currentRoom,
                   userColor, joined, nextUuid, now>>

(***************************************************************************)
(* socket.on('disconnect') (src/server/server.ts:352-358).  The transport  *)
(* has taken the socket out of its rooms when the handler runs.            *)
(***************************************************************************)
\* a faulty handler that also takes the leaving user's operations out of the log
OnDisconnectDroppingOperations(c) ==
    /\ status[c] = "open"
    /\ lastMsg' = Msg(c, "disconnect", [none |-> TRUE])
    /\ status' = [status EXCEPT ![c] = "closed"]
    /\ joined' = [joined EXCEPT ![c] = {}]
    /\ emitted' = << Emit(SocketTo(joined', c, currentRoom[c]), "user-left", [userId |-> c]) >>
    /\ rooms' = LET removed == removeUser(rooms, currentRoom[c], c)
                IN  SetOperations(removed, currentRoom[c],
                        SelectSeq(removed[currentRoom[c]].operations,
                                  LAMBDA op : op.userId # c))
    /\ userColors' = releaseUserColor(userColors, c)
    /\ UNCHANGED <<rmRooms, colorIndex, currentRoom, userName, userColor,
                   nextUuid, now>>

OnDisconnect(c) ==
    /\ status[c] = "open"
    /\ lastMsg' = Msg(c, "disconnect", [none |-> TRUE])
    /\ status' = [status EXCEPT ![c] = "closed"]
    /\ joined' = [joined EXCEPT ![c] = {}]
    /\ emitted' = << Emit(SocketTo(joined', c, currentRoom[c]), "user-left", [userId |-> c]) >>
    /\ rooms' = removeUser(rooms, currentRoom[c], c)
    /\ userColors' = releaseUserColor(userColors, c)
    /\ UNCHANGED <<rmRooms, colorIndex, currentRoom, userName, userColor,
                   nextUuid, now>>


(***************************************************************************)
(* The sweeper each connection starts (src/server/server.ts:361-363); the  *)
(* interval is never cleared, so it also runs after the disconnect.        *)
(***************************************************************************)
\* a faulty sweep that already removes a user seen exactly USER_TIMEOUT ago
cleanupInactiveUsersAtTimeout(rs, roomId, time) ==
    LET st == getRoomState(rs, roomId)
        us == st[roomId].users
        inactiveUsers == {u \in DOMAIN us : time - us[u].lastSeen >= USER_TIMEOUT}
    IN  SetUsers(st, roomId, [u \in (DOMAIN us) \ inactiveUsers |-> us[u]])

cleanupInactiveUsers(rs, roomId, time) ==
    LET st == getRoomState(rs, roomId)
        us == st[roomId].users
        inactiveUsers == {u \in DOMAIN us : time - us[u].lastSeen > USER_TIMEOUT}
    IN  SetUsers(st, roomId, [u \in (DOMAIN us) \ inactiveUsers |-> us[u]])

Sweep(c) ==
    /\ status[c] # "new"
    /\ lastMsg' = Msg(c, "sweep", [none |-> TRUE])
    /\ SessionsUnchanged
    /\ UNCHANGED <<nextUuid>>
    /\ rooms' = cleanupInactiveUsers(rooms, currentRoom[c], now)
    /\ emitted' = << >>

\* Date.now() advances
Tick(d) ==
    /\ now' = now + d
    /\ lastMsg' = Msg(0, "tick", d)
    /\ emitted' = << >>
    /\ UNCHANGED <<rooms, rmRooms, userColors, colorIndex, status, currentRoom,
                   userName, userColor, joined, nextUuid>>

(***************************************************************************)
(* The messages the connections send: any client may send any payload.     *)
(***************************************************************************)
\* a room id of exactly MAX_ROOM_ID_LENGTH characters, of every allowed kind
RoomB == <<"B", "-", "_", "9">> \o [i \in 1..(MAX_ROOM_ID_LENGTH - 4) |-> "a"]
Long51 == RoomB \o <<"a">>
EmptyRoomId == << >>
BadCharRoom == <<"M", "y", " ", "R", "o", "o", "m", "!">>

JoinRoomInputs ==
    { [roomId |-> DEFAULT_ROOM, userName |-> NoName],
      [roomId |-> RoomB, userName |-> Name(1)],
      [roomId |-> Long51, userName |-> NoName],
      [roomId |-> EmptyRoomId, userName |-> Name(1)],
      [roomId |-> BadCharRoom, userName |-> NoName] }

DrawStartInputs ==
    { [point |-> Pt(-1, 2), lineWidth |-> Num(500), operationId |-> CId(1)],
      [point |-> Pt(3, 0), lineWidth |-> Num(-5), operationId |-> NoId],
      [point |-> Pt(1, 1), lineWidth |-> Str, operationId |-> CId(1)],
      [point |-> BadPt, lineWidth |-> Num(7), operationId |-> CId(1)],
      [point |-> NoPt, lineWidth |-> Undef, operationId |-> NoId] }

DrawProgressInputs ==
    { [operationId |-> CId(1), point |-> Pt(-1, 5)],
      [operationId |-> CId(1), point |-> Pt(4, 0)],
      [operationId |-> Uuid(1), point |-> Pt(4, 0)],
      [operationId |-> NoId, point |-> Pt(4, 0)],
      [operationId |-> CId(1), point |-> BadPt] }

DrawEndInputs == { [operationId |-> CId(1)] }

EraseInputs == { [point |-> Pt(-1, 2)], [point |-> NoPt] }

ShapeInputs ==
    { [BlankOperation EXCEPT !.type = "circle", !.userId = 1,
                             !.startPoint = Pt(-1, 0), !.endPoint = Pt(1, 1)],
      [BlankOperation EXCEPT !.type = "rectangle", !.startPoint = Pt(0, 0)],
      [BlankOperation EXCEPT !.type = "rectangle", !.endPoint = Pt(0, 0)] }

TextInputs ==
    { [BlankOperation EXCEPT !.id = CId(2), !.type = "draw", !.userId = 1, !.text = TRUE,
                             !.startPoint = Pt(1, 1), !.hasPath = TRUE,
                             !.path = << Pt(-3, 0) >>],
      [BlankOperation EXCEPT !.type = "text", !.startPoint = Pt(1, 1)],
      [BlankOperation EXCEPT !.type = "text", !.text = TRUE] }

ImageInputs ==
    { [BlankOperation EXCEPT !.type = "image", !.imageData = TRUE, !.startPoint = Pt(2, 1)],
      [BlankOperation EXCEPT !.type = "image", !.startPoint = Pt(2, 1)],
      [BlankOperation EXCEPT !.type = "image", !.imageData = TRUE] }

CursorMoveInputs == { [point |-> Pt(-1, 0)] }

SetNameInputs == { [userName |-> Name(1)] }

PingInputs == {7}

TickSteps == {1, USER_TIMEOUT}

(***************************************************************************)
(* Specifications.                                                         *)
(***************************************************************************)
\* CanvasManager after construction (src/client/main.ts:854-866).  heap holds
\* the operation objects the manager has allocated; operations, undoStack and
\* remoteOperations hold references (indexes) into it, so that two of them
\* naming the same object see each other's writes.
NoOperation == [BlankOperation EXCEPT !.type = "null"]

NewCanvas ==
    [heap |-> << >>, operations |-> << >>, undoStack |-> << >>,
     remoteOperations |-> EmptyMap, isDrawing |-> FALSE,
     currentOperation |-> NoOperation, nextId |-> 0]

\* WebSocketManager after construction (src/client/main.ts:576-580)
NewWs == [userId |-> 0, users |-> EmptyMap]

ClientsInit ==
    /\ inbox = [c \in Conns |-> << >>]
    /\ outbox = [c \in Conns |-> << >>]
    /\ canvas = [c \in Conns |-> NewCanvas]
    /\ ws = [c \in Conns |-> NewWs]
    /\ nInputs = 0
    /\ sentPoints = EmptyMap
    /\ ended = {}
    /\ snapEnded = [c \in Conns |-> {}]
    /\ snapOps = [c \in Conns |-> << >>]
    /\ cleared = {}

SessionsInit ==
    /\ status = [c \in Conns |-> "new"]
    /\ currentRoom = [c \in Conns |-> DEFAULT_ROOM]
    /\ userName = [c \in Conns |-> DefaultName(c)]
    /\ userColor = [c \in Conns |-> NoColor]
    /\ joined = [c \in Conns |-> {}]
    /\ now = 0
    /\ nMsgs = 0
    /\ lastMsg = Msg(0, "listen", [none |-> TRUE])
    /\ emitted = << >>

\* the server after construction: no room, no color binding
Init ==
    /\ rooms = EmptyMap
    /\ rmRooms = {}
    /\ userColors = EmptyMap
    /\ colorIndex = 0
    /\ nextUuid = 0
    /\ SessionsInit
    /\ ClientsInit

\* connection lifecycle and room changes
SessionStep(c) ==
    \/ Connect(c)
    \/ \E data \in JoinRoomInputs : OnJoinRoom(c, data)
    \/ OnDisconnect(c)

\* the messages that read or write the operation log
DrawingStep(c) ==
    \/ \E data \in DrawStartInputs : OnDrawStart(c, data)
    \/ \E data \in DrawProgressInputs : OnDrawProgress(c, data)
    \/ \E data \in DrawEndInputs : OnDrawEnd(c, data)
    \/ \E data \in EraseInputs : OnErase(c, data)
    \/ \E operation \in ShapeInputs : OnShape(c, operation)
    \/ \E operation \in TextInputs : OnText(c, operation)
    \/ \E operation \in ImageInputs : OnImage(c, operation)
    \/ OnClearCanvas(c)
    \/ OnUndo(c)

\* presence and liveness
PresenceStep(c) ==
    \/ \E timestamp \in PingInputs : OnPing(c, timestamp)
    \/ \E data \in CursorMoveInputs : OnCursorMove(c, data)
    \/ \E data \in SetNameInputs : OnSetName(c, data)
    \/ Sweep(c)

\* the server's event loop runs one handler to completion
Counted(limit) == nMsgs < limit /\ nMsgs' = nMsgs + 1

\* the whole relay: any event of any connection, whatever the clients do with
\* what it emits
Next ==
    /\ Counted(MaxMsgs)
    /\ \/ \E c \in Conns : SessionStep(c) \/ DrawingStep(c) \/ PresenceStep(c)
       \/ \E d \in TickSteps : Tick(d)
    /\ UNCHANGED clientVars

Spec == Init /\ [][Next]_vars

\* longer runs of fewer connections that stay in the default room and only draw
NextLog ==
    /\ Counted(MaxLogMsgs)
    /\ \E c \in 1..MaxLogConns : Connect(c) \/ DrawingStep(c)
    /\ UNCHANGED clientVars

SpecLog == Init /\ [][NextLog]_vars


(***************************************************************************)
(* A server whose default room is at or near capacity.  Two sessions,      *)
(* since closed, took turns sending n shape messages without an id: the    *)
(* log holds their n operations, both have been removed from the presence  *)
(* map and have released their colors.                                     *)
(***************************************************************************)
PastOperation(i) ==
    [BlankOperation EXCEPT
        !.id = Uuid(i),
        !.userId = IF i % 2 = 1 THEN -1 ELSE -2,
        !.type = "circle",
        !.startPoint = Pt(0, 0),
        !.endPoint = Pt(1, 1)]

PastLog(n) == [i \in 1..n |-> PastOperation(i)]

InitFull ==
    /\ \E n \in (MAX_OPERATIONS - Headroom)..MAX_OPERATIONS :
         /\ rooms = MapSet(EmptyMap, DEFAULT_ROOM,
                           [operations |-> PastLog(n), users |-> EmptyMap])
         /\ nextUuid = n
    /\ rmRooms = {DEFAULT_ROOM}
    /\ userColors = EmptyMap
    /\ colorIndex = Cardinality(PastUsers)
    /\ SessionsInit
    /\ ClientsInit

NextFull ==
    /\ Counted(MaxFullMsgs)
    /\ \E c \in 1..MaxLogConns : Connect(c) \/ DrawingStep(c)
    /\ UNCHANGED clientVars

SpecFull == InitFull /\ [][NextFull]_vars

\* the same server while the clock advances between the messages that put
\* an entry into a log or take one out
MaxAgedMsgs == 5

EntryStep(c) ==
    \/ \E data \in DrawStartInputs : OnDrawStart(c, data)
    \/ \E operation \in ShapeInputs : OnShape(c, operation)
    \/ OnClearCanvas(c)
    \/ OnUndo(c)

NextAged ==
    /\ Counted(MaxAgedMsgs)
    /\ \/ \E c \in 1..MaxLogConns : Connect(c) \/ EntryStep(c)
       \/ Tick(1)
    /\ UNCHANGED clientVars

SpecAged == InitFull /\ [][NextAged]_vars

\* the first connection of the process is still open, in the default room
\* with the first palette entry, and the connections that came after it,
\* enough to use the palette up or nearly, have all gone again
InitColors ==
    /\ \E n \in (Len(DEFAULT_COLORS) - ColorHeadroom)..Len(DEFAULT_COLORS) : colorIndex = n
    /\ userColors = MapSet(EmptyMap, 1, DEFAULT_COLORS[1])
    /\ rooms = addUser(EmptyMap, DEFAULT_ROOM, 1, DefaultName(1), DEFAULT_COLORS[1], 0)
    /\ rmRooms = {DEFAULT_ROOM}
    /\ nextUuid = 0
    /\ status = [c \in Conns |-> IF c = 1 THEN "open" ELSE "new"]
    /\ currentRoom = [c \in Conns |-> DEFAULT_ROOM]
    /\ userName = [c \in Conns |-> DefaultName(c)]
    /\ userColor = [c \in Conns |-> IF c = 1 THEN DEFAULT_COLORS[1] ELSE NoColor]
    /\ joined = [c \in Conns |-> IF c = 1 THEN {DEFAULT_ROOM} ELSE {}]
    /\ now = 0
    /\ nMsgs = 0
    /\ lastMsg = Msg(0, "listen", [none |-> TRUE])
    /\ emitted = << >>
    /\ ClientsInit

NextColors ==
    /\ Counted(MaxColorMsgs)
    /\ \E c \in Conns : SessionStep(c)
    /\ UNCHANGED clientVars

SpecColors == InitColors /\ [][NextColors]_vars


(***************************************************************************)
(* CanvasManager, the client mirror (src/client/main.ts).  Each operator   *)
(* takes the manager and returns the manager after the call.  Rendering    *)
(* into the canvas is not modelled.                                        *)
(***************************************************************************)
\* operations.findIndex(op => op.id === id), counted from 1; 0 when none
MirrorIndexes(cm, id) ==
    {i \in 1..Len(cm.operations) : cm.heap[cm.operations[i]].id = id}

MirrorIndex(cm, id) ==
    IF MirrorIndexes(cm, id) = {} THEN 0
    ELSE CHOOSE i \in MirrorIndexes(cm, id) : \A j \in MirrorIndexes(cm, id) : i <= j

\* the operations of the mirror, by value
MirrorOps(cm) == [i \in 1..Len(cm.operations) |-> cm.heap[cm.operations[i]]]

\* a faulty loadOperations that forgets to empty the operations list
loadOperationsAppending(cm, operations) ==
    LET kept == SelectSeq(operations, LAMBDA op : op.id # NoId)
    IN  [cm EXCEPT !.heap = @ \o kept,
                   !.operations = @ \o [i \in 1..Len(kept) |-> Len(cm.heap) + i],
                   !.undoStack = << >>,
                   !.remoteOperations =
                       [id \in {kept[i].id : i \in 1..Len(kept)} |->
                           Len(cm.heap) + CHOOSE i \in 1..Len(kept) :
                               /\ kept[i].id = id
                               /\ \A j \in 1..Len(kept) : kept[j].id = id => j <= i]]

\* loadOperations: the lists are rebuilt from copies; one copy serves both
\* operations and remoteOperations, and a later entry of the same id takes
\* the map entry over
loadOperations(cm, operations) ==
    LET kept == SelectSeq(operations, LAMBDA op : op.id # NoId)
        ids == {kept[i].id : i \in 1..Len(kept)}
        lastOf(id) == CHOOSE i \in 1..Len(kept) :
                          /\ kept[i].id = id
                          /\ \A j \in 1..Len(kept) : kept[j].id = id => j <= i
    IN  [cm EXCEPT !.heap = kept,
                   !.operations = [i \in 1..Len(kept) |-> i],
                   !.undoStack = << >>,
                   !.remoteOperations = [id \in ids |-> lastOf(id)]]

\* the branch of applyRemoteOperation shared by shapes, text and images: the
\* copy is pushed, and entered in the map, unless the id is already mirrored
PushIfNew(cm, operation) ==
    IF MirrorIndex(cm, operation.id) # 0 THEN cm
    ELSE [cm EXCEPT !.heap = Append(@, operation),
                    !.operations = Append(@, Len(cm.heap) + 1),
                    !.remoteOperations = MapSet(@, operation.id, Len(cm.heap) + 1)]

\* the draw / erase branch of applyRemoteOperation, first half: the map entry
MergeIntoMap(cm, operation) ==
    IF /\ operation.id \in DOMAIN cm.remoteOperations
       /\ cm.heap[cm.remoteOperations[operation.id]].hasPath
       /\ Len(cm.heap[cm.remoteOperations[operation.id]].path) > 0
    THEN [cm EXCEPT !.heap[cm.remoteOperations[operation.id]].path = operation.path]
    ELSE [cm EXCEPT !.heap = Append(@, operation),
                    !.remoteOperations = MapSet(@, operation.id, Len(cm.heap) + 1)]

\* second half: the entry of the operations list
MergeIntoList(cm, operation) ==
    IF MirrorIndex(cm, operation.id) = 0
    THEN [cm EXCEPT !.heap = Append(@, operation),
                    !.operations = Append(@, Len(cm.heap) + 1)]
    ELSE [cm EXCEPT !.heap[cm.operations[MirrorIndex(cm, operation.id)]].path = operation.path,
                    !.heap[cm.operations[MirrorIndex(cm, operation.id)]].hasPath = TRUE]

applyRemoteOperation(cm, operation) ==
    IF operation.id = NoId THEN cm
    ELSE IF operation.type = "clear"
    THEN [cm EXCEPT !.heap = << >>, !.operations = << >>, !.undoStack = << >>,
                    !.remoteOperations = EmptyMap]
    ELSE IF operation.type \in {"rectangle", "circle"}
    THEN IF operation.startPoint.k = "none" \/ operation.endPoint.k = "none"
         THEN cm ELSE PushIfNew(cm, operation)
    ELSE IF operation.type \in {"text", "image"}
    THEN PushIfNew(cm, operation)
    ELSE IF ~operation.hasPath \/ Len(operation.path) = 0 THEN cm
    ELSE IF operation.type \notin {"draw", "erase"} THEN cm
    ELSE MergeIntoList(MergeIntoMap(cm, operation), operation)

\* addPointToRemoteOperation, first half: the object the point is pushed on
\* (0 when the delta is dropped), entered in the map if it was not there
TrackedForPoint(cm, operationId) ==
    IF /\ operationId \in DOMAIN cm.remoteOperations
       /\ cm.heap[cm.remoteOperations[operationId]].hasPath
    THEN cm
    ELSE IF /\ MirrorIndex(cm, operationId) # 0
            /\ cm.heap[cm.operations[MirrorIndex(cm, operationId)]].hasPath
            /\ Len(cm.heap[cm.operations[MirrorIndex(cm, operationId)]].path) > 0
    THEN [cm EXCEPT !.heap = Append(@, cm.heap[cm.operations[MirrorIndex(cm, operationId)]]),
                    !.remoteOperations = MapSet(@, operationId, Len(cm.heap) + 1)]
    ELSE cm

PointAccepted(cm, operationId) ==
    /\ operationId \in DOMAIN TrackedForPoint(cm, operationId).remoteOperations
    /\ TrackedForPoint(cm, operationId).heap[
           TrackedForPoint(cm, operationId).remoteOperations[operationId]].hasPath

\* a faulty addPointToRemoteOperation that takes a point only for a stroke
\* the operations list does not hold yet
addPointToRemoteOperationNewOnly(cm, operationId, point) ==
    IF ~PointAccepted(cm, operationId) \/ MirrorIndex(cm, operationId) # 0 THEN cm
    ELSE LET tracked == TrackedForPoint(cm, operationId)
             r == tracked.remoteOperations[operationId]
             pushed == [tracked EXCEPT !.heap[r].path = Append(@, point)]
         IN  [pushed EXCEPT !.heap = Append(@, pushed.heap[r]),
                            !.operations = Append(@, Len(pushed.heap) + 1)]

\* addPointToRemoteOperation: the point is pushed on the tracked object and
\* the entry of the operations list takes a copy of the path; a tracked
\* object that is not in the list is pushed as a copy
addPointToRemoteOperation(cm, operationId, point) ==
    IF ~PointAccepted(cm, operationId) THEN cm
    ELSE LET tracked == TrackedForPoint(cm, operationId)
             r == tracked.remoteOperations[operationId]
             pushed == [tracked EXCEPT !.heap[r].path = Append(@, point)]
             opIndex == MirrorIndex(pushed, operationId)
         IN  IF opIndex # 0
             THEN IF pushed.heap[pushed.operations[opIndex]].hasPath
                  THEN [pushed EXCEPT !.heap[pushed.operations[opIndex]].path = pushed.heap[r].path]
                  ELSE pushed
             ELSE [pushed EXCEPT !.heap = Append(@, pushed.heap[r]),
                                 !.operations = Append(@, Len(pushed.heap) + 1)]

\* removeOperation: the first entry of that id leaves the list
removeOperation(cm, operationId) ==
    IF MirrorIndex(cm, operationId) = 0 THEN cm
    ELSE [cm EXCEPT !.operations = Splice1(@, MirrorIndex(cm, operationId))]


(***************************************************************************)
(* The client's handling of one received event: the socket listeners of    *)
(* WebSocketManager (src/client/main.ts:615-699) and the callbacks the     *)
(* application binds to them (src/client/main.ts:348-410).                 *)
(***************************************************************************)
CanvasAfterEvent(cm, w, m) ==
    CASE m.event = "room-state" -> loadOperations(cm, m.payload.operations)
      [] m.event \in {"draw-start", "erase", "shape", "text", "image"} ->
            IF m.payload.userId # w.userId THEN applyRemoteOperation(cm, m.payload) ELSE cm
      [] m.event = "clear-canvas" -> applyRemoteOperation(cm, m.payload)
      [] m.event = "draw-progress" ->
            addPointToRemoteOperation(cm, m.payload.operationId, m.payload.point)
      [] m.event = "undo" -> removeOperation(cm, m.payload.operationId)
      [] OTHER -> cm

UsersAfterEvent(w, m) ==
    CASE m.event = "room-state" ->
            [u \in {x.id : x \in m.payload.users} |->
                CHOOSE x \in m.payload.users : x.id = u]
      [] m.event = "user-joined" ->
            MapSet(w.users, m.payload.userId,
                   [id |-> m.payload.userId, name |-> m.payload.userName,
                    color |-> m.payload.color, cursorPosition |-> NoPt])
      [] m.event = "user-left" -> MapDelete(w.users, m.payload.userId)
      [] m.event = "user-name-changed" ->
            IF m.payload.userId \in DOMAIN w.users
            THEN [w.users EXCEPT ![m.payload.userId].name = m.payload.userName]
            ELSE w.users
      [] m.event = "cursor-move" ->
            IF m.payload.userId # w.userId /\ m.payload.userId \in DOMAIN w.users
            THEN [w.users EXCEPT ![m.payload.userId].cursorPosition = m.payload.point]
            ELSE w.users
      [] OTHER -> w.users

ClientReceive(c) ==
    /\ status[c] = "open"
    /\ inbox[c] # << >>
    /\ canvas' = [canvas EXCEPT ![c] = CanvasAfterEvent(@, ws[c], Head(inbox[c]))]
    /\ ws' = [ws EXCEPT ![c].users = UsersAfterEvent(ws[c], Head(inbox[c]))]
    /\ inbox' = [inbox EXCEPT ![c] = Tail(@)]
    /\ UNCHANGED <<outbox, nInputs, sentPoints, ended, snapEnded, snapOps, cleared>>
    /\ UNCHANGED serverVars

(***************************************************************************)
(* The brush of the client: handleStart / handleMove / handleEnd           *)
(* (src/client/main.ts:954-1006) with startDrawing, addPointToOperation,   *)
(* finishOperation (1008-1084) and the callbacks that send                 *)
(* (src/client/main.ts:414-469).                                           *)
(***************************************************************************)
Send(box, c, event, data) == [box EXCEPT ![c] = Append(@, [event |-> event, data |-> data])]

\* currentLineWidth of a fresh CanvasManager
CurrentLineWidth == Num(DEFAULT_LINE_WIDTH)

\* addPointToOperation skips a point closer than 2 to the last one
TooClose(p, q) == (p.x - q.x) * (p.x - q.x) + (p.y - q.y) * (p.y - q.y) < 2 * 2

MouseDown(c, point) ==
    /\ status[c] = "open"
    /\ ~canvas[c].isDrawing
    /\ LET id == GenId(c, canvas[c].nextId + 1)
           operation == [BlankOperation EXCEPT
                            !.id = id, !.userId = ws[c].userId, !.type = "draw",
                            !.hasPath = TRUE, !.path = << point >>,
                            !.lineWidth = CurrentLineWidth]
       IN  /\ canvas' = [canvas EXCEPT ![c].isDrawing = TRUE,
                                       ![c].currentOperation = operation,
                                       ![c].nextId = @ + 1]
           /\ outbox' = Send(outbox, c, "draw-start",
                             [point |-> point, lineWidth |-> CurrentLineWidth,
                              operationId |-> id])
           /\ sentPoints' = MapSet(sentPoints, id, << point >>)
    /\ UNCHANGED <<inbox, ws, ended, snapEnded, snapOps, cleared>>
    /\ UNCHANGED serverVars

MouseMove(c, point) ==
    /\ status[c] = "open"
    /\ canvas[c].isDrawing
    /\ canvas[c].currentOperation # NoOperation
    /\ LET current == canvas[c].currentOperation
           lastPoint == current.path[Len(current.path)]
       IN  IF TooClose(point, lastPoint)
           THEN UNCHANGED <<canvas, outbox, sentPoints>>
           ELSE /\ canvas' = [canvas EXCEPT ![c].currentOperation.path = Append(@, point)]
                /\ outbox' = Send(Send(outbox, c, "draw-progress",
                                       [operationId |-> current.id, point |-> point]),
                                  c, "cursor-move", [point |-> point])
                /\ sentPoints' = [sentPoints EXCEPT ![current.id] = Append(@, point)]
    /\ UNCHANGED <<inbox, ws, ended, snapEnded, snapOps, cleared>>
    /\ UNCHANGED serverVars

\* finishOperation: one copy goes into operations and into remoteOperations
finishOperation(cm) ==
    IF cm.currentOperation = NoOperation THEN cm
    ELSE [cm EXCEPT !.heap = Append(@, cm.currentOperation),
                    !.operations = Append(@, Len(cm.heap) + 1),
                    !.remoteOperations = MapSet(@, cm.currentOperation.id, Len(cm.heap) + 1),
                    !.undoStack = << >>,
                    !.currentOperation = NoOperation]

MouseUp(c) ==
    /\ status[c] = "open"
    /\ canvas[c].isDrawing
    /\ canvas' = [canvas EXCEPT ![c] = finishOperation([@ EXCEPT !.isDrawing = FALSE])]
    /\ outbox' = IF canvas[c].currentOperation # NoOperation
                    /\ canvas[c].currentOperation.type = "draw"
                 THEN Send(outbox, c, "draw-end",
                           [operationId |-> canvas[c].currentOperation.id])
                 ELSE outbox
    /\ UNCHANGED <<inbox, ws, sentPoints, ended, snapEnded, snapOps, cleared>>
    /\ UNCHANGED serverVars

(***************************************************************************)
(* Server and clients together: what a handler emits is queued, in order,  *)
(* for each socket it is addressed to; what a client sends is handled in   *)
(* the order it was sent.                                                  *)
(***************************************************************************)
Delivered(box, ems) ==
    [d \in Conns |->
        box[d] \o
        LET mine == SelectSeq(ems, LAMBDA e : d \in e.to)
        IN  [i \in 1..Len(mine) |-> [event |-> mine[i].event, payload |-> mine[i].payload]]]

ConnectSync(c) ==
    /\ Connect(c)
    /\ nMsgs' = nMsgs + 1
    /\ inbox' = Delivered(inbox, emitted')
    /\ ws' = [ws EXCEPT ![c].userId = c]
    /\ snapEnded' = [snapEnded EXCEPT ![c] = ended]
    /\ snapOps' = [snapOps EXCEPT ![c] = rooms'[currentRoom'[c]].operations]
    /\ UNCHANGED <<outbox, canvas, sentPoints, ended, cleared>>

ServerReceive(c) ==
    /\ status[c] = "open"
    /\ outbox[c] # << >>
    /\ LET m == Head(outbox[c])
       IN  /\ CASE m.event = "draw-start" -> OnDrawStart(c, m.data)
                [] m.event = "draw-progress" -> OnDrawProgress(c, m.data)
                [] m.event = "draw-end" -> OnDrawEnd(c, m.data)
                [] m.event = "cursor-move" -> OnCursorMove(c, m.data)
                [] m.event = "erase" -> OnErase(c, m.data)
                [] m.event = "undo" -> OnUndo(c)
                [] m.event = "join-room" -> OnJoinRoom(c, m.data)
                [] m.event = "clear-canvas" -> OnClearCanvas(c)
                [] m.event = "image" -> OnImage(c, m.data)
                [] m.event = "text" -> OnText(c, m.data)
           /\ ended' = IF m.event = "draw-end"
                       THEN ended \cup {m.data.operationId} ELSE ended
           /\ snapEnded' = IF m.event = "join-room" /\ JoinRoomError(m.data.roomId) = ""
                           THEN [snapEnded EXCEPT ![c] = ended] ELSE snapEnded
           /\ snapOps' = IF m.event = "join-room" /\ JoinRoomError(m.data.roomId) = ""
                         THEN [snapOps EXCEPT ![c] = rooms'[currentRoom'[c]].operations]
                         ELSE snapOps
           /\ cleared' = IF m.event = "clear-canvas"
                         THEN cleared \cup
                              {<< currentRoom[c], rooms[currentRoom[c]].operations[i].id >> :
                                  i \in 1..Len(rooms[currentRoom[c]].operations)}
                         ELSE cleared
    /\ nMsgs' = nMsgs + 1
    /\ outbox' = [outbox EXCEPT ![c] = Tail(@)]
    /\ inbox' = Delivered(inbox, emitted')
    /\ UNCHANGED <<canvas, ws, nInputs, sentPoints>>

MousePoints == {Pt(0, 0), Pt(1, 1), Pt(3, 4)}

UserInput(c) ==
    /\ nInputs < MaxSyncInputs
    /\ nInputs' = nInputs + 1
    /\ \/ ConnectSync(c)
       \/ \E point \in MousePoints : MouseDown(c, point)
       \/ \E point \in MousePoints : MouseMove(c, point)
       \/ MouseUp(c)

NextSync ==
    \E c \in 1..MaxLogConns : UserInput(c) \/ ServerReceive(c) \/ ClientReceive(c)

SpecSync == Init /\ [][NextSync]_vars


(***************************************************************************)
(* A client in the middle of a long stroke.  Connection 1 connected,       *)
(* loaded the empty Snapshot, pressed the mouse button and has since moved *)
(* between two points n - 1 times; the server has handled the draw-start   *)
(* and each draw-progress and cursor-move, so the stroke is in the log     *)
(* with its n points.                                                      *)
(***************************************************************************)
LongPoint(i) == IF i % 2 = 1 THEN Pt(0, 0) ELSE Pt(3, 4)

LongPath(n) == [i \in 1..n |-> LongPoint(i)]

LongStroke(n) ==
    [BlankOperation EXCEPT
        !.id = GenId(1, 1), !.userId = 1, !.type = "draw", !.hasPath = TRUE,
        !.path = LongPath(n), !.lineWidth = CurrentLineWidth]

InitLong ==
    /\ \E n \in (MAX_PATH_POINTS - PathHeadroom)..MAX_PATH_POINTS :
         /\ rooms = MapSet(EmptyMap, DEFAULT_ROOM,
                [operations |-> << LongStroke(n) >>,
                 users |-> MapSet(EmptyMap, 1,
                              [id |-> 1, name |-> DefaultName(1),
                               color |-> DEFAULT_COLORS[1],
                               cursorPosition |-> LongPoint(n), lastSeen |-> 0])])
         /\ canvas = [c \in Conns |->
                         IF c = 1
                         THEN [NewCanvas EXCEPT !.isDrawing = TRUE,
                                                !.currentOperation = LongStroke(n),
                                                !.nextId = 1]
                         ELSE NewCanvas]
         /\ sentPoints = MapSet(EmptyMap, GenId(1, 1), LongPath(n))
    /\ rmRooms = {DEFAULT_ROOM}
    /\ userColors = MapSet(EmptyMap, 1, DEFAULT_COLORS[1])
    /\ colorIndex = 1
    /\ nextUuid = 0
    /\ status = [c \in Conns |-> IF c = 1 THEN "open" ELSE "new"]
    /\ currentRoom = [c \in Conns |-> DEFAULT_ROOM]
    /\ userName = [c \in Conns |-> DefaultName(c)]
    /\ userColor = [c \in Conns |-> IF c = 1 THEN DEFAULT_COLORS[1] ELSE NoColor]
    /\ joined = [c \in Conns |-> IF c = 1 THEN {DEFAULT_ROOM} ELSE {}]
    /\ now = 0
    /\ nMsgs = 0
    /\ lastMsg = Msg(0, "listen", [none |-> TRUE])
    /\ emitted = << >>
    /\ inbox = [c \in Conns |-> << >>]
    /\ outbox = [c \in Conns |-> << >>]
    /\ ws = [c \in Conns |-> IF c = 1 THEN [NewWs EXCEPT !.userId = 1] ELSE NewWs]
    /\ nInputs = 0
    /\ ended = {}
    /\ snapEnded = [c \in Conns |-> {}]
    /\ snapOps = [c \in Conns |-> << >>]
    /\ cleared = {}

UserInputLong(c) ==
    /\ nInputs < MaxLongInputs
    /\ nInputs' = nInputs + 1
    /\ \/ ConnectSync(c)
       \/ \E point \in MousePoints : MouseDown(c, point)
       \/ \E point \in MousePoints : MouseMove(c, point)
       \/ MouseUp(c)

NextLong ==
    \E c \in 1..MaxLogConns : UserInputLong(c) \/ ServerReceive(c) \/ ClientReceive(c)

SpecLong == InitLong /\ [][NextLong]_vars


(***************************************************************************)
(* Strokes and texts only: the text handler stores the object it receives  *)
(* (src/server/server.ts:264-276), so a text may bring a path of any       *)
(* length with it.                                                         *)
(***************************************************************************)
PathTextInputs ==
    { [BlankOperation EXCEPT !.type = "text", !.text = TRUE, !.startPoint = Pt(1, 1)],
      [BlankOperation EXCEPT !.type = "text", !.text = TRUE, !.startPoint = Pt(1, 1),
                             !.hasPath = TRUE, !.path = LongPath(MAX_PATH_POINTS + 1)] }

NextPaths ==
    /\ Counted(MaxPathMsgs)
    /\ \E c \in 1..MaxLogConns :
          \/ Connect(c)
          \/ \E data \in DrawStartInputs : OnDrawStart(c, data)
          \/ \E data \in DrawProgressInputs : OnDrawProgress(c, data)
          \/ \E operation \in PathTextInputs : OnText(c, operation)
    /\ UNCHANGED clientVars

SpecPaths == Init /\ [][NextPaths]_vars


(***************************************************************************)
(* The eraser and the undo button of the client.  startErasing             *)
(* (src/client/main.ts:1023-1037) sends the first point without the id the *)
(* client gave the operation; the undo button (src/client/main.ts:285-295) *)
(* pops the mirror's last operation and, if there was one, sends undo.     *)
(***************************************************************************)
EraseDown(c, point) ==
    /\ status[c] = "open"
    /\ ~canvas[c].isDrawing
    /\ LET id == GenId(c, canvas[c].nextId + 1)
           operation == [BlankOperation EXCEPT
                            !.id = id, !.userId = ws[c].userId, !.type = "erase",
                            !.hasPath = TRUE, !.path = << point >>]
       IN  /\ canvas' = [canvas EXCEPT ![c].isDrawing = TRUE,
                                       ![c].currentOperation = operation,
                                       ![c].nextId = @ + 1]
           /\ outbox' = Send(outbox, c, "erase", [point |-> point])
           /\ sentPoints' = MapSet(sentPoints, id, << point >>)
    /\ UNCHANGED <<inbox, ws, ended, snapEnded, snapOps, cleared>>
    /\ UNCHANGED serverVars

\* CanvasManager.undo: the last entry of operations, whoever its author,
\* moves to the redo stack and leaves the remoteOperations map
undo(cm) ==
    IF Len(cm.operations) = 0 THEN cm
    ELSE [cm EXCEPT
            !.operations = SubSeq(@, 1, Len(@) - 1),
            !.undoStack = Append(@, cm.operations[Len(cm.operations)]),
            !.remoteOperations =
                MapDelete(@, cm.heap[cm.operations[Len(cm.operations)]].id)]

\* the id of the operation undo() takes out of the mirror; the undo message
\* is sent without it, the field only records what the client did
Removed(cm) == cm.heap[cm.operations[Len(cm.operations)]].id

UndoClick(c) ==
    /\ status[c] = "open"
    /\ ~canvas[c].isDrawing
    /\ canvas' = [canvas EXCEPT ![c] = undo(@)]
    /\ outbox' = IF Len(canvas[c].operations) # 0
                 THEN Send(outbox, c, "undo", [removed |-> Removed(canvas[c])])
                 ELSE outbox
    /\ UNCHANGED <<inbox, ws, sentPoints, ended, snapEnded, snapOps, cleared>>
    /\ UNCHANGED serverVars

\* the join button with an empty room field and an empty name field
\* (src/client/main.ts:317-322, 757-763)
JoinClick(c) ==
    /\ status[c] = "open"
    /\ outbox' = Send(outbox, c, "join-room", [roomId |-> DEFAULT_ROOM, userName |-> NoName])
    /\ UNCHANGED <<inbox, canvas, ws, sentPoints, ended, snapEnded, snapOps, cleared>>
    /\ UNCHANGED serverVars

ToolPoints == {Pt(0, 0), Pt(3, 4)}

UserInputTools(c) ==
    /\ nInputs < MaxToolInputs
    /\ nInputs' = nInputs + 1
    /\ \/ ConnectSync(c)
       \/ \E point \in ToolPoints : MouseDown(c, point)
       \/ \E point \in ToolPoints : EraseDown(c, point)
       \/ \E point \in ToolPoints : MouseMove(c, point)
       \/ MouseUp(c)
       \/ UndoClick(c)
       \/ JoinClick(c)

NextTools ==
    \E c \in 1..MaxLogConns : UserInputTools(c) \/ ServerReceive(c) \/ ClientReceive(c)

SpecTools == Init /\ [][NextTools]_vars


(***************************************************************************)
(* The redo button, the clear button and the placing of an image           *)
(* (src/client/main.ts:296-305, 263-268, 215-250).                         *)
(***************************************************************************)
\* CanvasManager.redo: the last entry of the redo stack goes back to the end
\* of operations; a copy enters remoteOperations if the id is not there
redo(cm) ==
    IF Len(cm.undoStack) = 0 THEN cm
    ELSE LET r == cm.undoStack[Len(cm.undoStack)]
             popped == [cm EXCEPT !.undoStack = SubSeq(@, 1, Len(@) - 1),
                                  !.operations = Append(@, r)]
         IN  IF cm.heap[r].id \in DOMAIN cm.remoteOperations THEN popped
             ELSE [popped EXCEPT !.heap = Append(@, cm.heap[r]),
                                 !.remoteOperations =
                                     MapSet(@, cm.heap[r].id, Len(cm.heap) + 1)]

\* the redo button: nothing is sent
RedoClick(c) ==
    /\ status[c] = "open"
    /\ ~canvas[c].isDrawing
    /\ canvas' = [canvas EXCEPT ![c] = redo(@)]
    /\ UNCHANGED <<inbox, outbox, ws, sentPoints, ended, snapEnded, snapOps, cleared>>
    /\ UNCHANGED serverVars

\* the clear button: clearCanvas() wipes the pixels only, then clear-canvas
\* is sent
ClearClick(c) ==
    /\ status[c] = "open"
    /\ ~canvas[c].isDrawing
    /\ outbox' = Send(outbox, c, "clear-canvas", [none |-> TRUE])
    /\ UNCHANGED <<inbox, canvas, ws, sentPoints, ended, snapEnded, snapOps, cleared>>
    /\ UNCHANGED serverVars

\* CanvasManager.addOperation: a copy is pushed and entered in the map
addOperationToMirror(cm, operation) ==
    [cm EXCEPT !.heap = Append(@, operation),
               !.operations = Append(@, Len(cm.heap) + 1),
               !.remoteOperations = MapSet(@, operation.id, Len(cm.heap) + 1)]

\* the click that places a chosen image: the operation is added to the
\* mirror with addOperation and sent
PlaceImage(c, point) ==
    /\ status[c] = "open"
    /\ ~canvas[c].isDrawing
    /\ LET operation == [BlankOperation EXCEPT
                            !.id = GenId(c, canvas[c].nextId + 1),
                            !.userId = ws[c].userId, !.type = "image",
                            !.startPoint = point, !.imageData = TRUE]
       IN  /\ canvas' = [canvas EXCEPT
                            ![c] = addOperationToMirror([@ EXCEPT !.nextId = @ + 1], operation)]
           /\ outbox' = Send(outbox, c, "image", operation)
    /\ UNCHANGED <<inbox, ws, sentPoints, ended, snapEnded, snapOps, cleared>>
    /\ UNCHANGED serverVars

EditPoints == {Pt(3, 4)}

UserInputEdit(c) ==
    /\ nInputs < MaxEditInputs
    /\ nInputs' = nInputs + 1
    /\ \/ ConnectSync(c)
       \/ \E point \in EditPoints : MouseDown(c, point)
       \/ MouseUp(c)
       \/ \E point \in EditPoints : PlaceImage(c, point)
       \/ UndoClick(c)
       \/ RedoClick(c)
       \/ ClearClick(c)

NextEdit ==
    \E c \in 1..MaxLogConns : UserInputEdit(c) \/ ServerReceive(c) \/ ClientReceive(c)

SpecEdit == Init /\ [][NextEdit]_vars


(***************************************************************************)
(* The text tool (src/client/main.ts:954-969, 1540-1564): a mouse press     *)
(* with a text entered at the prompt.                                      *)
(***************************************************************************)
\* handleStart with the text tool: startText pushes a copy of the new
\* operation (its userId still empty), the start callback stamps the userId
\* and sends the operation, and finishOperation pushes a second copy;
\* isDrawing stays set until the mouse is released
TextDown(c, point) ==
    /\ status[c] = "open"
    /\ ~canvas[c].isDrawing
    /\ LET id == GenId(c, canvas[c].nextId + 1)
           created == [BlankOperation EXCEPT
                          !.id = id, !.type = "text", !.text = TRUE,
                          !.startPoint = point]
           stamped == [created EXCEPT !.userId = ws[c].userId]
           pushed == [canvas[c] EXCEPT
                          !.isDrawing = TRUE,
                          !.nextId = @ + 1,
                          !.heap = Append(@, created),
                          !.operations = Append(@, Len(canvas[c].heap) + 1),
                          !.currentOperation = stamped]
       IN  /\ canvas' = [canvas EXCEPT ![c] = finishOperation(pushed)]
           /\ outbox' = Send(outbox, c, "text", stamped)
    /\ UNCHANGED <<inbox, ws, sentPoints, ended, snapEnded, snapOps, cleared>>
    /\ UNCHANGED serverVars

MaxTextInputs == 5

UserInputText(c) ==
    /\ nInputs < MaxTextInputs
    /\ nInputs' = nInputs + 1
    /\ \/ ConnectSync(c)
       \/ \E point \in EditPoints : MouseDown(c, point)
       \/ \E point \in EditPoints : TextDown(c, point)
       \/ MouseUp(c)
       \/ UndoClick(c)
       \/ RedoClick(c)

NextText ==
    \E c \in 1..MaxLogConns : UserInputText(c) \/ ServerReceive(c) \/ ClientReceive(c)

SpecText == Init /\ [][NextText]_vars


(***************************************************************************)
(* Properties.  In Spec, SpecLog and SpecFull every step is one handled    *)
(* event: lastMsg' is the event of the step and emitted' what its handler  *)
(* emitted, the unprimed variables are the state the handler found.        *)
(***************************************************************************)
\* the log of a room, empty when the room has no state yet
LogOf(rs, r) == IF r \in DOMAIN rs THEN rs[r].operations ELSE << >>

\* s without its i-th entry, the others in their order
Without(s, i) == [k \in 1..(Len(s) - 1) |-> IF k < i THEN s[k] ELSE s[k + 1]]

\* the sessions whose current room is r
RoomMembers(r) == {d \in Conns : status[d] = "open" /\ currentRoom[d] = r}

\* the handler answered with an error event
Rejected(ems) == Len(ems) = 1 /\ ems[1].event = "error"

\* the events whose handler appends one operation to the log
AppendEvents == {"draw-start", "erase", "shape", "text", "image"}

\* the step appended an operation to the log of the sender's room
Appended == lastMsg'.event \in AppendEvents /\ ~Rejected(emitted')

\* C1: a log never holds more than MAX_OPERATIONS operations, and an append
\* to a log that holds MAX_OPERATIONS removes the entry at index 0 and nothing
\* else: the old entries 2..MAX_OPERATIONS move up one place in their order
\* and the new operation is the last entry.
C1_LogBounded ==
    /\ [](\A r \in DOMAIN rooms : Len(rooms[r].operations) <= MAX_OPERATIONS)
    /\ [][ (Appended /\ Len(LogOf(rooms, currentRoom[lastMsg'.from])) = MAX_OPERATIONS) =>
             LET pre == LogOf(rooms, currentRoom[lastMsg'.from])
                 post == LogOf(rooms', currentRoom[lastMsg'.from])
             IN  /\ Len(post) = MAX_OPERATIONS
                 /\ \A i \in 1..(MAX_OPERATIONS - 1) : post[i] = pre[i + 1]
                 /\ post[MAX_OPERATIONS] = emitted'[1].payload
                 /\ post[MAX_OPERATIONS].userId = lastMsg'.from ]_vars

\* a full log whose oldest entry has been evicted by an append of a connection
C1_Evicted ==
    /\ lastMsg.event \in AppendEvents
    /\ ~Rejected(emitted)
    /\ Len(LogOf(rooms, DEFAULT_ROOM)) = MAX_OPERATIONS
    /\ rooms[DEFAULT_ROOM].operations[1] = PastOperation(2)
    /\ rooms[DEFAULT_ROOM].operations[MAX_OPERATIONS].userId \in Conns

\* C2: an undo by a user who has an operation in the log removes that user's
\* operation closest to the tail and returns it (the undo event names it);
\* every other entry stays, in the same order.
C2_UndoRemovesLastOwn ==
    [][ (/\ lastMsg'.event = "undo"
         /\ \E i \in 1..Len(LogOf(rooms, currentRoom[lastMsg'.from])) :
                LogOf(rooms, currentRoom[lastMsg'.from])[i].userId = lastMsg'.from) =>
          LET u == lastMsg'.from
              pre == LogOf(rooms, currentRoom[u])
              post == LogOf(rooms', currentRoom[u])
          IN  \E i \in 1..Len(pre) :
                  /\ pre[i].userId = u
                  /\ \A j \in (i + 1)..Len(pre) : pre[j].userId # u
                  /\ post = Without(pre, i)
                  /\ Len(emitted') = 1
                  /\ emitted'[1].payload.operationId = pre[i].id
                  /\ emitted'[1].payload.userId = pre[i].userId ]_vars

\* the log [A(u1), B(u2), C(u1)] after the undo of u1: C, appended after B,
\* has been removed and returned, A and B are left in their order
C2_UndoneAfterOther ==
    /\ lastMsg = Msg(1, "undo", [none |-> TRUE])
    /\ Len(LogOf(rooms, DEFAULT_ROOM)) = 2
    /\ rooms[DEFAULT_ROOM].operations[1].userId = 1
    /\ rooms[DEFAULT_ROOM].operations[2].userId = 2
    /\ rooms[DEFAULT_ROOM].operations[2].id = Uuid(1)
    /\ Len(emitted) = 1
    /\ emitted[1].payload = [operationId |-> Uuid(2), userId |-> 1]

\* every entry of pre is still in post, at its place
Kept(pre, post) ==
    /\ Len(post) >= Len(pre)
    /\ \A i \in 1..Len(pre) :
           /\ post[i].id = pre[i].id
           /\ post[i].userId = pre[i].userId
           /\ post[i].type = pre[i].type

\* C3: an operation leaves the log of a room only in a step that is an undo
\* sent by its author in that room, a clear-canvas in that room, or an
\* append to that room's log at capacity, which takes the entry at index 0;
\* in every other step, the undo of another user included, each entry of
\* each log stays at its place.
C3_LeavesOnlyByOwnUndoClearEviction ==
    [][ \A r \in DOMAIN rooms :
          LET pre == rooms[r].operations
              post == LogOf(rooms', r)
          IN  \/ Kept(pre, post)
              \/ /\ lastMsg'.event = "clear-canvas"
                 /\ r = currentRoom[lastMsg'.from]
              \/ /\ lastMsg'.event = "undo"
                 /\ r = currentRoom[lastMsg'.from]
                 /\ \E i \in 1..Len(pre) :
                        /\ pre[i].userId = lastMsg'.from
                        /\ post = Without(pre, i)
              \/ /\ Appended
                 /\ r = currentRoom[lastMsg'.from]
                 /\ Len(pre) = MAX_OPERATIONS
                 /\ Kept(Tail(pre), post) ]_vars

\* an undo by a user without an operation of their own, in a log at capacity
\* that holds operations of the past sessions and one of another connection:
\* nothing was removed
C3_OthersUndoKeepsLog ==
    /\ lastMsg.event = "undo"
    /\ emitted = << >>
    /\ Len(LogOf(rooms, DEFAULT_ROOM)) = MAX_OPERATIONS
    /\ rooms[DEFAULT_ROOM].operations[1].userId \in PastUsers
    /\ rooms[DEFAULT_ROOM].operations[MAX_OPERATIONS].userId \in Conns \ {lastMsg.from}

\* C4: an undo by a user without an operation in the log of their room
\* changes no log and emits nothing; otherwise the handler emits exactly one
\* event, 'undo', carrying the id and the author of the operation it removed,
\* to every session of the room, the sender among them.
C4_UndoBroadcastIffRemoved ==
    [][ lastMsg'.event = "undo" =>
          LET u == lastMsg'.from
              pre == LogOf(rooms, currentRoom[u])
              post == LogOf(rooms', currentRoom[u])
          IN  IF \A i \in 1..Len(pre) : pre[i].userId # u
              THEN rooms' = rooms /\ emitted' = << >>
              ELSE /\ Len(emitted') = 1
                   /\ emitted'[1].event = "undo"
                   /\ emitted'[1].to = RoomMembers(currentRoom[u])
                   /\ u \in emitted'[1].to
                   /\ \E i \in 1..Len(pre) :
                          /\ pre[i].userId = u
                          /\ post = Without(pre, i)
                          /\ emitted'[1].payload =
                                 [operationId |-> pre[i].id, userId |-> u] ]_vars

\* an undo that removed an operation of the sender, in a room of two or more
\* sessions
C4_UndoneInSharedRoom ==
    /\ lastMsg.event = "undo"
    /\ Len(emitted) = 1
    /\ emitted[1].payload.userId = lastMsg.from
    /\ Cardinality(emitted[1].to) >= 2
    /\ lastMsg.from \in emitted[1].to

\* the operation a draw-progress names: the first entry of the log of the
\* sender's room that carries the id (the lookup of the handler resolves an
\* id to the first entry carrying it); the id names no operation, or one
\* authored by another user
NamesNoOwnOperation ==
    LET u == lastMsg'.from
        id == lastMsg'.data.operationId
        pre == LogOf(rooms, currentRoom[u])
    IN  \/ \A i \in 1..Len(pre) : pre[i].id # id
        \/ \E i \in 1..Len(pre) :
               /\ pre[i].id = id
               /\ pre[i].userId # u
               /\ \A j \in 1..(i - 1) : pre[j].id # id

\* C5: a draw-progress whose operationId names an operation of another user,
\* or no operation of the log of the sender's room, changes no path (nothing
\* of any room's state), is relayed to nobody and gets no error event.
C5_ForeignProgressDropped ==
    [][ (lastMsg'.event = "draw-progress" /\ NamesNoOwnOperation) =>
          (rooms' = rooms /\ emitted' = << >>) ]_vars

\* a well-formed draw-progress that named the stroke of another user of the
\* room was handled
C5_ForeignProgressHandled ==
    /\ lastMsg.event = "draw-progress"
    /\ lastMsg.data.point.k = "num"
    /\ \E i \in 1..Len(LogOf(rooms, currentRoom[lastMsg.from])) :
           LET op == rooms[currentRoom[lastMsg.from]].operations[i]
           IN  /\ op.id = lastMsg.data.operationId
               /\ op.userId \in Conns \ {lastMsg.from}
               /\ op.type = "draw"
               /\ \A j \in 1..(i - 1) :
                      rooms[currentRoom[lastMsg.from]].operations[j].id # op.id
    /\ Cardinality(RoomMembers(currentRoom[lastMsg.from])) >= 2

\* a room id join-room must refuse: empty, longer than MAX_ROOM_ID_LENGTH, or
\* with a character outside [A-Za-z0-9_-]
InvalidRoomId(roomId) ==
    \/ Len(roomId) = 0
    \/ Len(roomId) > MAX_ROOM_ID_LENGTH
    \/ \E i \in 1..Len(roomId) : roomId[i] \notin RoomIdChars

\* C6: a join-room with an invalid room id is answered with one error event
\* to the sender alone and changes nothing: no room is created, the sender's
\* current room and transport membership stay, the presence maps stay, and no
\* user-left, user-joined or room-state is emitted.
C6_InvalidJoinRejected ==
    [][ (lastMsg'.event = "join-room" /\ InvalidRoomId(lastMsg'.data.roomId)) =>
          /\ Len(emitted') = 1
          /\ emitted'[1].event = "error"
          /\ emitted'[1].to = {lastMsg'.from}
          /\ UNCHANGED <<rooms, rmRooms, userColors, colorIndex, status,
                         currentRoom, userName, userColor, joined>> ]_vars

\* a join-room naming a room id of MAX_ROOM_ID_LENGTH + 1 allowed characters
\* was handled, by a session that shares its room with another
C6_OverlongJoinHandled ==
    /\ lastMsg.event = "join-room"
    /\ Len(lastMsg.data.roomId) = MAX_ROOM_ID_LENGTH + 1
    /\ \A i \in 1..Len(lastMsg.data.roomId) : lastMsg.data.roomId[i] \in RoomIdChars
    /\ Rejected(emitted)
    /\ Cardinality(RoomMembers(currentRoom[lastMsg.from])) >= 2

\* C7: for every accepted draw-start the lineWidth stored in the log and the
\* lineWidth relayed are the same number, which lies in
\* [MIN_LINE_WIDTH, MAX_LINE_WIDTH]; a requested width above the range is
\* stored as MAX_LINE_WIDTH and a negative one as MIN_LINE_WIDTH.
C7_LineWidthClamped ==
    [][ (lastMsg'.event = "draw-start" /\ ~Rejected(emitted')) =>
          LET post == LogOf(rooms', currentRoom[lastMsg'.from])
              stored == post[Len(post)].lineWidth
              relayed == emitted'[1].payload.lineWidth
              sent == lastMsg'.data.lineWidth
          IN  /\ stored = relayed
              /\ stored.t = "num"
              /\ stored.n \in MIN_LINE_WIDTH..MAX_LINE_WIDTH
              /\ (sent.t = "num" /\ sent.n > MAX_LINE_WIDTH) => stored.n = MAX_LINE_WIDTH
              /\ (sent.t = "num" /\ sent.n < 0) => stored.n = MIN_LINE_WIDTH ]_vars

\* C8: after a clear-canvas the log of the sender's room holds exactly one
\* operation, of type clear and authored by the sender, whatever it held
\* before, and the handler emitted one clear-canvas event carrying that
\* operation to every session of the room, the sender among them.
C8_ClearLeavesOneOperation ==
    lastMsg.event = "clear-canvas" =>
        LET u == lastMsg.from
            post == LogOf(rooms, currentRoom[u])
        IN  /\ Len(post) = 1
            /\ post[1].type = "clear"
            /\ post[1].userId = u
            /\ Len(emitted) = 1
            /\ emitted[1].event = "clear-canvas"
            /\ emitted[1].payload = post[1]
            /\ emitted[1].to = RoomMembers(currentRoom[u])
            /\ u \in emitted[1].to

\* a clear-canvas handled in a room of two sessions whose log held
\* MAX_OPERATIONS operations: the clear operation took the first uuid drawn
\* after the log had filled up
C8_ClearedFullLog ==
    /\ lastMsg.event = "clear-canvas"
    /\ nextUuid = MAX_OPERATIONS + 1
    /\ Len(emitted) = 1
    /\ Cardinality(emitted[1].to) = 2

\* the messages the server relays to the rest of the room
RelayedEvents ==
    {"draw-start", "draw-progress", "draw-end", "erase", "shape", "text",
     "image", "cursor-move", "set-name"}

\* C9: a draw-start, draw-progress, draw-end, erase, shape, text, image,
\* cursor-move or set-name that is accepted is relayed in one event to every
\* other session of the sender's current room and to nobody else, never to
\* the sender; of these only a draw-progress may be dropped without an
\* answer, the others are relayed or answered with an error.
C9_RelayedToOthersOnly ==
    lastMsg.event \in RelayedEvents =>
        /\ lastMsg.event # "draw-progress" => emitted # << >>
        /\ (emitted # << >> /\ ~Rejected(emitted)) =>
              /\ Len(emitted) = 1
              /\ emitted[1].event =
                    (IF lastMsg.event = "set-name" THEN "user-name-changed"
                     ELSE lastMsg.event)
              /\ emitted[1].to = RoomMembers(currentRoom[lastMsg.from]) \ {lastMsg.from}
              /\ lastMsg.from \notin emitted[1].to

\* a relayed message of a session that has a neighbour in its room while a
\* third session is in another room
C9_RelayedPastOtherRoom ==
    /\ lastMsg.event \in RelayedEvents
    /\ Len(emitted) = 1
    /\ ~Rejected(emitted)
    /\ emitted[1].to # {}
    /\ \E d \in Conns : status[d] = "open" /\ currentRoom[d] # currentRoom[lastMsg.from]

\* the entries of a list of operations that carry the id
WithId(ops, id) == {k \in 1..Len(ops) : ops[k].id = id}

\* the list holds the stroke id once, with exactly the points its author
\* sent (the start point and one point per draw-progress), in the order sent
HoldsStroke(ops, id) ==
    /\ Cardinality(WithId(ops, id)) = 1
    /\ \A k \in WithId(ops, id) : ops[k].hasPath /\ ops[k].path = sentPoints[id]

\* the points of a stroke the log takes: the first MAX_PATH_POINTS sent
StoredPoints(id) ==
    SubSeq(sentPoints[id], 1, Min(Len(sentPoints[id]), MAX_PATH_POINTS))

\* the list holds the stroke id once, with the points the log took of it
HoldsCappedStroke(ops, id) ==
    /\ Cardinality(WithId(ops, id)) = 1
    /\ \A k \in WithId(ops, id) : ops[k].hasPath /\ ops[k].path = StoredPoints(id)

\* C10 as stated: when the server has handled the draw-start, the N
\* draw-progress and the draw-end of a stroke, in the order sent, the
\* Snapshot of a client that joins afterwards holds the stroke with a path of
\* exactly the N + 1 points sent, in that order, and so does the client's
\* mirror once it has loaded the Snapshot.
C10_SnapshotHoldsWholeStroke ==
    \A j \in Conns : \A id \in snapEnded[j] :
        /\ \A i \in 1..Len(inbox[j]) :
               inbox[j][i].event = "room-state" =>
                   HoldsStroke(inbox[j][i].payload.operations, id)
        /\ (/\ status[j] = "open"
            /\ \A i \in 1..Len(inbox[j]) : inbox[j][i].event # "room-state") =>
               HoldsStroke(MirrorOps(canvas[j]), id)

\* C10 amended: the Snapshot of a client that joins after the draw-end, and
\* the client's mirror once it has loaded the Snapshot, hold the stroke with
\* the first min(N + 1, MAX_PATH_POINTS) points sent, in the order sent: all
\* N + 1 points when N + 1 <= MAX_PATH_POINTS, and MAX_PATH_POINTS points
\* when more were sent.
C10_SnapshotHoldsCappedStroke ==
    \A j \in Conns : \A id \in snapEnded[j] :
        /\ \A i \in 1..Len(inbox[j]) :
               inbox[j][i].event = "room-state" =>
                   HoldsCappedStroke(inbox[j][i].payload.operations, id)
        /\ (/\ status[j] = "open"
            /\ \A i \in 1..Len(inbox[j]) : inbox[j][i].event # "room-state") =>
               HoldsCappedStroke(MirrorOps(canvas[j]), id)

\* a client that joined after a stroke had ended, of which the author had
\* sent all the points the log takes, has loaded its Snapshot and mirrors the
\* stroke with every point sent
C10_StrokeMirrored ==
    \E j \in Conns : \E id \in snapEnded[j] :
        /\ Len(sentPoints[id]) = MAX_PATH_POINTS
        /\ status[j] = "open"
        /\ \A i \in 1..Len(inbox[j]) : inbox[j][i].event # "room-state"
        /\ HoldsStroke(MirrorOps(canvas[j]), id)


(***************************************************************************)
(* C11 .. C20                                                              *)
(***************************************************************************)
\* the snapshots a client can be handed: those waiting in an inbox and the
\* one the server would send now for a room
PendingSnapshots ==
    UNION {{inbox[c][i].payload.operations :
                i \in {k \in 1..Len(inbox[c]) : inbox[c][k].event = "room-state"}} :
           c \in Conns}

ReachableSnapshots ==
    PendingSnapshots \cup {getStateSnapshot(rooms, r).operations : r \in DOMAIN rooms}

Ids(ops) == [i \in 1..Len(ops) |-> ops[i].id]

Count(seq, x) == Cardinality({i \in 1..Len(seq) : seq[i] = x})

\* C11: loading a snapshot into a mirror that has already loaded it gives the
\* mirror of a single load: the same ids in the same order, no id more often
\* than after one load, and an empty redo stack; so for every mirror and
\* every snapshot the program reaches
C11_LoadTwiceIsLoadOnce ==
    \A c \in Conns : \A snapshot \in ReachableSnapshots :
        LET once == loadOperations(canvas[c], snapshot)
            twice == loadOperations(once, snapshot)
        IN  /\ Ids(MirrorOps(twice)) = Ids(MirrorOps(once))
            /\ \A i \in 1..Len(twice.operations) :
                   Count(Ids(MirrorOps(twice)), MirrorOps(twice)[i].id)
                       <= Count(Ids(MirrorOps(once)), MirrorOps(twice)[i].id)
            /\ MirrorOps(twice) = MirrorOps(once)
            /\ twice.undoStack = << >>
            /\ DOMAIN twice.remoteOperations = DOMAIN once.remoteOperations

\* a client whose mirror is the loaded snapshot of a non-empty log is about
\* to load that same snapshot again
C11_SameSnapshotPending ==
    \E c \in Conns :
        /\ inbox[c] # << >>
        /\ Head(inbox[c]).event = "room-state"
        /\ Head(inbox[c]).payload.operations # << >>
        /\ canvas[c].operations # << >>
        /\ MirrorOps(canvas[c]) =
               MirrorOps(loadOperations(canvas[c], Head(inbox[c]).payload.operations))

\* nothing is in flight and nobody is in the middle of a stroke
Quiescent ==
    /\ \A c \in Conns : inbox[c] = << >> /\ outbox[c] = << >>
    /\ \A c \in Conns : ~canvas[c].isDrawing

NonClear(ops) == SelectSeq(ops, LAMBDA op : op.type # "clear")

IdSet(ops) == {ops[i].id : i \in 1..Len(ops)}

PathsOf(ops, id) == {ops[i].path : i \in {k \in 1..Len(ops) : ops[k].id = id}}

\* C12: once every message in flight has been delivered and no stroke is
\* open, the mirror of every member of a room holds the non-clear operation
\* ids of the room's log, each with the path the log holds
C12_MirrorsConverge ==
    Quiescent =>
        \A c \in Conns :
            status[c] = "open" =>
                LET log == NonClear(LogOf(rooms, currentRoom[c]))
                    mirror == NonClear(MirrorOps(canvas[c]))
                IN  /\ IdSet(mirror) = IdSet(log)
                    /\ \A id \in IdSet(log) : PathsOf(mirror, id) = PathsOf(log, id)

\* C13: no two operations of one room log carry the same id
C13_LogIdsUnique ==
    \A r \in DOMAIN rooms :
        \A i, j \in 1..Len(rooms[r].operations) :
            rooms[r].operations[i].id = rooms[r].operations[j].id => i = j

\* C14: after the server has handled draw-end for an operation from its
\* author, a draw-progress for that operation from the same author changes
\* no log and is relayed to nobody; stated for the draw-progress that is
\* the very next message the server handles
C14_ProgressAfterEndDropped ==
    [][(/\ lastMsg.event = "draw-end"
        /\ lastMsg'.event = "draw-progress"
        /\ lastMsg'.from = lastMsg.from
        /\ lastMsg'.data.operationId = lastMsg.data.operationId
        /\ ProgressAccepted(LogOf(rooms, currentRoom[lastMsg.from]), lastMsg.from,
                            lastMsg.data.operationId))
       => (rooms' = rooms /\ emitted' = << >>)]_vars

\* the first operation of that id in the log belongs to c and holds 10,000 points
HoldsCappedAt(ops, c, id) ==
    /\ FindIndex(ops, id) # 0
    /\ ops[FindIndex(ops, id)].userId = c
    /\ Len(ops[FindIndex(ops, id)].path) = MAX_PATH_POINTS

\* C15: no path in a log is longer than 10,000 points, the path of an
\* operation that stays in the log never gets shorter, and a draw-progress
\* from the owner of a stroke of 10,000 points changes nothing and makes the
\* server emit nothing, no error included
C15_PathCapped ==
    /\ [](\A r \in DOMAIN rooms : \A i \in 1..Len(rooms[r].operations) :
            Len(rooms[r].operations[i].path) <= MAX_PATH_POINTS)
    /\ [][\A r \in DOMAIN rooms : \A i \in 1..Len(rooms[r].operations) :
            (/\ r \in DOMAIN rooms'
             /\ i <= Len(rooms'[r].operations)
             /\ rooms'[r].operations[i].id = rooms[r].operations[i].id)
            => Len(rooms'[r].operations[i].path) >= Len(rooms[r].operations[i].path)]_vars
    /\ [][(/\ lastMsg'.event = "draw-progress"
           /\ lastMsg'.data.point.k = "num"
           /\ HoldsCappedAt(LogOf(rooms, currentRoom[lastMsg'.from]), lastMsg'.from,
                            lastMsg'.data.operationId))
          => (rooms' = rooms /\ emitted' = << >>)]_vars

NonNegative(p) == p.k = "num" => (p.x >= 0 /\ p.y >= 0)

OperationNonNegative(op) ==
    /\ \A i \in 1..Len(op.path) : NonNegative(op.path[i])
    /\ NonNegative(op.startPoint)
    /\ NonNegative(op.endPoint)

\* C16: every point the server stores in a log or a presence map, and every
\* point it relays, has both coordinates at least 0
C16_PointsNonNegative ==
    /\ \A r \in DOMAIN rooms :
          /\ \A i \in 1..Len(rooms[r].operations) :
                OperationNonNegative(rooms[r].operations[i])
          /\ \A u \in DOMAIN rooms[r].users : NonNegative(rooms[r].users[u].cursorPosition)
    /\ \A i \in 1..Len(emitted) :
          /\ emitted[i].event \in {"draw-start", "erase", "shape", "text", "image"}
                => OperationNonNegative(emitted[i].payload)
          /\ emitted[i].event \in {"draw-progress", "cursor-move"}
                => NonNegative(emitted[i].payload.point)

\* the message lacks what its handler requires: a draw-start without a
\* numeric point, a shape without startPoint or endPoint, a text without
\* text or startPoint, an image without imageData or startPoint
LacksRequired(m) ==
    \/ m.event = "draw-start" /\ m.data.point.k # "num"
    \/ m.event = "shape" /\ (m.data.startPoint.k = "none" \/ m.data.endPoint.k = "none")
    \/ m.event = "text" /\ (~m.data.text \/ m.data.startPoint.k = "none")
    \/ m.event = "image" /\ (~m.data.imageData \/ m.data.startPoint.k = "none")

\* C17: a draw-start, shape, text or image that lacks what its handler
\* requires is answered with one error event addressed to the sender alone;
\* every log and every presence map stays as it was and nothing is relayed
C17_IncompleteRejected ==
    [][ LacksRequired(lastMsg') =>
          /\ Len(emitted') = 1
          /\ emitted'[1].event = "error"
          /\ emitted'[1].to = {lastMsg'.from}
          /\ rooms' = rooms ]_vars

\* a text that has its text but no startPoint was handled, sent by a session
\* that shares a room with another session and whose room has a log
C17_TextWithoutAnchorHandled ==
    /\ lastMsg.event = "text"
    /\ lastMsg.data.text
    /\ lastMsg.data.startPoint.k = "none"
    /\ Cardinality(RoomMembers(currentRoom[lastMsg.from])) >= 2
    /\ LogOf(rooms, currentRoom[lastMsg.from]) # << >>

\* C18: an erase without a point, or whose point has no numeric x and y, is
\* answered with an error to the sender; it appends no operation and is
\* relayed to nobody
C18_EraseWithoutPointRejected ==
    [][ (lastMsg'.event = "erase" /\ lastMsg'.data.point.k # "num") =>
          /\ Rejected(emitted')
          /\ emitted'[1].to = {lastMsg'.from}
          /\ rooms' = rooms ]_vars

\* the (id, userId) pairs of a list of operations
Authorship(ops) == {<< ops[i].id, ops[i].userId >> : i \in 1..Len(ops)}

\* C19: an operation enters a log only as the last entry of the log of the
\* sender's room, carrying the connection id of the sender as userId whatever
\* userId the payload named, and no later step changes the userId of an entry
C19_UserIdIsConnection ==
    [][ \A r \in DOMAIN rooms' :
          \A i \in 1..Len(rooms'[r].operations) :
             \/ << rooms'[r].operations[i].id, rooms'[r].operations[i].userId >>
                    \in Authorship(LogOf(rooms, r))
             \/ /\ r = currentRoom[lastMsg'.from]
                /\ i = Len(rooms'[r].operations)
                /\ rooms'[r].operations[i].userId = lastMsg'.from ]_vars

\* a text whose payload named another user as its author was stored
C19_ForeignUserIdStored ==
    /\ lastMsg.event = "text"
    /\ lastMsg.data.userId \in Conns \ {lastMsg.from}
    /\ ~Rejected(emitted)
    /\ LET log == LogOf(rooms, currentRoom[lastMsg.from])
       IN  /\ log # << >>
           /\ log[Len(log)].userId = lastMsg.from
           /\ log[Len(log)].id = lastMsg.data.id

\* the messages that act on the sender's room: drawing, undo, clear, cursor
\* and set-name
RoomEvents == RelayedEvents \cup {"undo", "clear-canvas"}

\* C20: a drawing, undo, clear, cursor or set-name message of a session in
\* room R leaves the log and the presence map of every other room as they
\* were, creates no other room, and whatever the server emits goes only to
\* members of R
C20_RoomsIsolated ==
    [][ lastMsg'.event \in RoomEvents =>
          /\ \A r \in DOMAIN rooms' \ {currentRoom[lastMsg'.from]} :
                r \in DOMAIN rooms /\ rooms'[r] = rooms[r]
          /\ \A r \in DOMAIN rooms : r \in DOMAIN rooms'
          /\ \A i \in 1..Len(emitted') : \A d \in emitted'[i].to :
                currentRoom[lastMsg'.from] \in joined[d] ]_vars

\* such a message was handled and answered while another room had a log and
\* a member of its own
C20_OtherRoomInUse ==
    /\ lastMsg.event \in RoomEvents
    /\ emitted # << >>
    /\ ~Rejected(emitted)
    /\ \E r \in DOMAIN rooms \ {currentRoom[lastMsg.from]} :
          /\ rooms[r].operations # << >>
          /\ \E d \in Conns : joined[d] = {r}


(***************************************************************************)
(* C21 .. C30                                                              *)
(***************************************************************************)
\* C21: an operation that was in the log of a room when a clear-canvas for
\* that room was handled is in that log in no later state, whatever undo,
\* redo, draw, image or clear the clients do afterwards; operations are told
\* apart by id, and the clients here give each new operation an id of its own
C21_ClearedNeverReturns ==
    \A r \in DOMAIN rooms : \A i \in 1..Len(rooms[r].operations) :
        << r, rooms[r].operations[i].id >> \notin cleared

\* after a clear-canvas took operations out of a log, an undo was handled
\* and removed an operation
C21_UndoAfterClear ==
    /\ cleared # {}
    /\ lastMsg.event = "undo"
    /\ emitted # << >>

\* C22: an undo, whoever sends it, leaves every clear marker in its log and
\* causes no undo broadcast that names a clear marker
C22_ClearNotUndone ==
    [][ lastMsg'.event = "undo" =>
          \A r \in DOMAIN rooms : \A i \in 1..Len(rooms[r].operations) :
             rooms[r].operations[i].type = "clear" =>
                /\ \E j \in 1..Len(LogOf(rooms', r)) :
                      rooms'[r].operations[j] = rooms[r].operations[i]
                /\ \A k \in 1..Len(emitted') :
                      emitted'[k].event = "undo" =>
                         emitted'[k].payload.operationId # rooms[r].operations[i].id ]_vars

\* the server handles the message at the head of the outbox of c
Handles(c, event) ==
    /\ outbox[c] # << >>
    /\ Head(outbox[c]).event = event
    /\ outbox'[c] = Tail(outbox[c])
    /\ nMsgs' = nMsgs + 1

\* C23: when the server handles the undo a client sent, it removes from the
\* log, and names in one undo broadcast to the room, the operation that the
\* client took out of its own mirror when it sent the undo
C23_UndoRemovesSameOperation ==
    [][ \A c \in Conns :
          Handles(c, "undo") =>
             /\ Len(emitted') = 1
             /\ emitted'[1].event = "undo"
             /\ emitted'[1].payload.operationId = Head(outbox[c]).data.removed
             /\ \A i \in 1..Len(LogOf(rooms', currentRoom[c])) :
                   rooms'[currentRoom[c]].operations[i].id # Head(outbox[c]).data.removed ]_vars

\* the step is a redo of client c that puts an operation back into its mirror
Redoes(c) ==
    /\ canvas[c].undoStack # << >>
    /\ canvas'[c].undoStack = SubSeq(canvas[c].undoStack, 1, Len(canvas[c].undoStack) - 1)
    /\ canvas'[c].operations =
           Append(canvas[c].operations, canvas[c].undoStack[Len(canvas[c].undoStack)])

\* C24: a redo reaches the server: the step in which a client puts an undone
\* operation back into its mirror also sends a message, without which the
\* operation cannot come back into the room's log or into any other mirror
C24_RedoReachesServer ==
    [][ \A c \in Conns : Redoes(c) => outbox'[c] # outbox[c] ]_vars

\* the step is an input of the user of client c that puts a new operation,
\* a new object, at the end of the mirror's operations
AddsLocalOperation(c) ==
    /\ inbox' = inbox
    /\ Len(canvas'[c].heap) = Len(canvas[c].heap) + 1
    /\ canvas'[c].operations = Append(canvas[c].operations, Len(canvas[c].heap) + 1)

\* C25: after a client has added a new local operation to its mirror, a
\* stroke or an image alike, its redo stack is empty
C25_NewOperationEmptiesRedo ==
    [][ \A c \in Conns : AddsLocalOperation(c) => canvas'[c].undoStack = << >> ]_vars

\* the palette entry of the k-th fresh binding, k counted from 0
PaletteEntry(k) == DEFAULT_COLORS[(k % Len(DEFAULT_COLORS)) + 1]

\* C26: a user keeps its color from its first assignment until its release,
\* a join-room hands the held color out again; a fresh binding takes the
\* palette entry colorIndex mod 10 and counts the index up by one, nothing
\* else moves the index; a disconnect removes the binding of the sender only
C26_StickyRoundRobin ==
    [][ /\ \A u \in DOMAIN userColors \cap DOMAIN userColors' : userColors'[u] = userColors[u]
        /\ \A u \in DOMAIN userColors' \ DOMAIN userColors :
              /\ userColors'[u] = PaletteEntry(colorIndex)
              /\ colorIndex' = colorIndex + 1
              /\ DOMAIN userColors' = DOMAIN userColors \cup {u}
        /\ DOMAIN userColors' \subseteq DOMAIN userColors => colorIndex' = colorIndex
        /\ lastMsg'.event = "disconnect" =>
              DOMAIN userColors' = DOMAIN userColors \ {lastMsg'.from}
        /\ lastMsg'.event # "disconnect" => DOMAIN userColors \subseteq DOMAIN userColors'
        /\ (lastMsg'.event \in {"connection", "join-room"} /\ ~Rejected(emitted')) =>
              /\ emitted'[Len(emitted')].event = "user-joined"
              /\ emitted'[Len(emitted')].payload.color = userColors'[lastMsg'.from]
      ]_vars

\* a session whose color was assigned after the palette had been used up
\* once has joined a room again, after another session had gone
C26_RejoinedPastWrap ==
    /\ lastMsg.event = "join-room"
    /\ ~Rejected(emitted)
    /\ colorIndex > Len(DEFAULT_COLORS)
    /\ \E k \in Len(DEFAULT_COLORS)..(colorIndex - 1) :
          userColors[lastMsg.from] = PaletteEntry(k)
    /\ \E d \in Conns : status[d] = "closed"

Connected == {c \in Conns : status[c] = "open"}

\* C27: while at most 10 users are connected, no two connected users hold
\* the same color
C27_ColorsDistinct ==
    Cardinality(Connected) <= Len(DEFAULT_COLORS) =>
        \A c, d \in Connected :
            (c # d /\ c \in DOMAIN userColors /\ d \in DOMAIN userColors)
                => userColors[c] # userColors[d]

\* C28: a sweep of a room takes out of its presence map exactly the users
\* last seen more than USER_TIMEOUT ago and changes nothing else: the entries
\* of the others, every log, every other room, the color bindings and the
\* room memberships stay, and nothing is emitted
C28_SweepRemovesOnlyStale ==
    [][ lastMsg'.event = "sweep" =>
          LET r == currentRoom[lastMsg'.from]
          IN  /\ DOMAIN rooms' = DOMAIN rooms
              /\ \A q \in DOMAIN rooms \ {r} : rooms'[q] = rooms[q]
              /\ rooms'[r].operations = rooms[r].operations
              /\ DOMAIN rooms'[r].users =
                    {u \in DOMAIN rooms[r].users :
                        ~(now - rooms[r].users[u].lastSeen > USER_TIMEOUT)}
              /\ \A u \in DOMAIN rooms'[r].users : rooms'[r].users[u] = rooms[r].users[u]
              /\ emitted' = << >>
              /\ UNCHANGED <<rmRooms, userColors, colorIndex, status, currentRoom,
                             userName, userColor, joined, now>> ]_vars

\* a sweep has taken a connected user, who keeps its color and its room, out
\* of the presence map of its room and has left a later user in it
C28_SweptWhileConnected ==
    /\ lastMsg.event = "sweep"
    /\ \E c \in Conns :
          /\ status[c] = "open"
          /\ c \in DOMAIN userColors
          /\ currentRoom[c] \in joined[c]
          /\ c \notin DOMAIN rooms[currentRoom[c]].users
          /\ DOMAIN rooms[currentRoom[c]].users # {}
          /\ currentRoom[c] = currentRoom[lastMsg.from]

\* the author of the operation has disconnected
AuthorGone(op) == op.userId \in Conns /\ status[op.userId] = "closed"

\* C29: a room that exists exists in every later state; a disconnect changes
\* no operation log; and an operation whose author has disconnected leaves
\* its log only by a clear-canvas in its room or as the oldest entry of a
\* full log that is appended to
C29_RoomsAndLogsPersist ==
    [][ /\ DOMAIN rooms \subseteq DOMAIN rooms'
        /\ rmRooms \subseteq rmRooms'
        /\ lastMsg'.event = "disconnect" =>
              \A r \in DOMAIN rooms : rooms'[r].operations = rooms[r].operations
        /\ \A r \in DOMAIN rooms : \A i \in 1..Len(rooms[r].operations) :
              AuthorGone(rooms[r].operations[i]) =>
                 \/ \E j \in 1..Len(rooms'[r].operations) :
                       rooms'[r].operations[j] = rooms[r].operations[i]
                 \/ lastMsg'.event = "clear-canvas" /\ currentRoom[lastMsg'.from] = r
                 \/ /\ Appended
                    /\ currentRoom[lastMsg'.from] = r
                    /\ Len(rooms[r].operations) = MAX_OPERATIONS
                    /\ i = 1 ]_vars

\* the stroke of a user who disconnected after its draw-start is still in
\* the log after another user's undo was handled
C29_OpenStrokeOutlivesAuthor ==
    /\ lastMsg.event = "undo"
    /\ status[lastMsg.from] = "open"
    /\ \E i \in 1..Len(LogOf(rooms, currentRoom[lastMsg.from])) :
          LET op == rooms[currentRoom[lastMsg.from]].operations[i]
          IN  AuthorGone(op) /\ op.type = "draw" /\ op.hasPath

\* the emit calls of the last handler that carry the event
EmitsOf(ems, event) == {k \in 1..Len(ems) : ems[k].event = event}

\* C30: a valid join-room of a session in room A naming room B makes the
\* server emit three events: one room-state to the sender alone, holding
\* the log of B in log order and the presence list of B; one user-left for
\* the sender to the members that remain in A; one user-joined for the
\* sender to the other members of B; the sender gets neither of the two, and
\* no log changes (the log of a room made by the join is empty)
C30_JoinAnnounced ==
    [][ (lastMsg'.event = "join-room" /\ ~Rejected(emitted')) =>
          LET c == lastMsg'.from
              A == currentRoom[c]
              B == lastMsg'.data.roomId
          IN  /\ Len(emitted') = 3
              /\ \E s \in EmitsOf(emitted', "room-state") :
                    /\ EmitsOf(emitted', "room-state") = {s}
                    /\ emitted'[s].to = {c}
                    /\ emitted'[s].payload.operations = LogOf(rooms, B)
                    /\ emitted'[s].payload.users =
                          {rooms'[B].users[u] : u \in DOMAIN rooms'[B].users}
                    /\ c \in DOMAIN rooms'[B].users
              /\ \E l \in EmitsOf(emitted', "user-left") :
                    /\ EmitsOf(emitted', "user-left") = {l}
                    /\ emitted'[l].to = Members(joined, A) \ {c}
                    /\ emitted'[l].payload.userId = c
              /\ \E j \in EmitsOf(emitted', "user-joined") :
                    /\ EmitsOf(emitted', "user-joined") = {j}
                    /\ emitted'[j].to = Members(joined, B) \ {c}
                    /\ emitted'[j].payload.userId = c
              /\ \A r \in DOMAIN rooms' : rooms'[r].operations = LogOf(rooms, r) ]_vars

\* a session has moved into another room that has a member and a log
C30_JoinedRoomInUse ==
    /\ lastMsg.event = "join-room"
    /\ ~Rejected(emitted)
    /\ lastMsg.data.roomId # DEFAULT_ROOM
    /\ Len(LogOf(rooms, lastMsg.data.roomId)) >= 1
    /\ \E k \in EmitsOf(emitted, "user-joined") : emitted[k].to # {}


(***************************************************************************)
(* C31 .. C39                                                              *)
(***************************************************************************)
\* the operations of the log of the room of c that another user appended
ForeignInLog(c) ==
    {i \in 1..Len(LogOf(rooms, currentRoom[c])) :
        rooms[currentRoom[c]].operations[i].userId # c}

OpenInSnapshot(j) ==
    {k \in 1..Len(snapOps[j]) :
        /\ snapOps[j][k].type = "draw"
        /\ snapOps[j][k].userId # j
        /\ snapOps[j][k].id \notin snapEnded[j]}

\* the list holds the id once, with exactly the path the log of room r holds
HoldsLogPath(ops, r, id) ==
    /\ Cardinality(WithId(ops, id)) = 1
    /\ Cardinality(WithId(LogOf(rooms, r), id)) = 1
    /\ \A k \in WithId(ops, id) : \A i \in WithId(LogOf(rooms, r), id) :
          ops[k].hasPath /\ ops[k].path = rooms[r].operations[i].path

\* C32: a client that joined while another user's stroke was open, once it
\* has loaded the Snapshot and every draw-progress the author sent has been
\* handled and delivered, mirrors that stroke exactly once, with a path equal
\* point for point to the path in the server log
C32_OpenStrokeCompleted ==
    \A j \in Conns :
        (/\ status[j] = "open"
         /\ inbox[j] = << >>
         /\ \A c \in Conns : outbox[c] = << >>) =>
            \A k \in OpenInSnapshot(j) :
                HoldsLogPath(MirrorOps(canvas[j]), currentRoom[j], snapOps[j][k].id)

\* a client joined when the Snapshot held one point of another user's open
\* stroke, at least two draw-progress followed, everything is delivered and
\* the client mirrors the stroke with the path of the log
C32_JoinedMidStroke ==
    \E j \in Conns : \E k \in OpenInSnapshot(j) :
        /\ status[j] = "open"
        /\ inbox[j] = << >>
        /\ \A c \in Conns : outbox[c] = << >>
        /\ \E i \in WithId(LogOf(rooms, currentRoom[j]), snapOps[j][k].id) :
              Len(rooms[currentRoom[j]].operations[i].path) >= Len(snapOps[j][k].path) + 2
        /\ HoldsLogPath(MirrorOps(canvas[j]), currentRoom[j], snapOps[j][k].id)

\* what identifies an entry of a log while its path grows
Entry(op) == << op.id, op.userId, op.timestamp >>

Entries(ops) == [i \in 1..Len(ops) |-> Entry(ops[i])]

\* post is pre without one of its entries, the others in their order: the
\* entry missing is at the first place where the two differ, or the last
SplicedFrom(pre, post) ==
    /\ Len(post) = Len(pre) - 1
    /\ LET differs(i) == Entry(post[i]) # Entry(pre[i])
           k == IF \A i \in 1..Len(post) : ~differs(i) THEN Len(pre)
                ELSE CHOOSE i \in 1..Len(post) :
                         differs(i) /\ \A j \in 1..(i - 1) : ~differs(j)
       IN  \A i \in k..Len(post) : Entry(post[i]) = Entry(pre[i + 1])

\* the step leaves the log of room r as it was, or appends one entry stamped
\* with the time of handling at the tail (dropping the head when the log was
\* full), or takes one entry out, or replaces the log by one clear marker;
\* the entries that remain keep their order
OrderKept(r) ==
    LET pre == LogOf(rooms, r)
        post == LogOf(rooms', r)
    IN  \/ post = pre
        \/ Len(post) = Len(pre) /\ Entries(post) = Entries(pre)
        \/ /\ post # << >>
           /\ post[Len(post)].timestamp = now
           /\ \/ /\ Len(post) = Len(pre) + 1
                 /\ Entries(SubSeq(post, 1, Len(post) - 1)) = Entries(pre)
              \/ /\ Len(pre) = MAX_OPERATIONS /\ Len(post) = MAX_OPERATIONS
                 /\ Entries(SubSeq(post, 1, Len(post) - 1)) = Entries(Shift(pre))
        \/ SplicedFrom(pre, post)
        \/ /\ lastMsg'.event = "clear-canvas"
           /\ Len(post) = 1 /\ post[1].type = "clear" /\ post[1].timestamp = now

\* C33: the log of a room is in the order in which the server handled the
\* messages that created its entries: a new entry goes to the tail, stamped
\* with the time of handling, so server timestamps never decrease from head
\* to tail; undo and eviction take entries out and leave the others in order
C33_LogInHandlingOrder ==
    /\ [](\A r \in DOMAIN rooms : \A i \in 1..(Len(rooms[r].operations) - 1) :
            rooms[r].operations[i].timestamp <= rooms[r].operations[i + 1].timestamp)
    /\ [][\A r \in DOMAIN rooms' : OrderKept(r)]_vars

\* a full log lost its head to an append made after the clock advanced, and
\* an undo then took an entry out: the entries left are in handling order
C33_EvictedThenUndone ==
    /\ lastMsg.event = "undo"
    /\ \E r \in DOMAIN rooms :
          LET ops == rooms[r].operations
          IN  /\ Len(ops) = MAX_OPERATIONS - 1
              /\ ops[1].id # Uuid(1)
              /\ ops[1].timestamp < ops[Len(ops)].timestamp

\* the events that only pass something on
RelayOnlyEvents == {"draw-end", "cursor-move", "set-name", "ping"}

\* C34: handling a draw-end, a cursor-move, a set-name or a ping leaves the
\* operation log of every room as it was (length, order and every path); a
\* ping is answered by one pong that carries the same timestamp and goes to
\* the sender alone, and leaves every presence map as it was
C34_RelayOnlyKeepsLogs ==
    [][ /\ lastMsg'.event \in RelayOnlyEvents =>
              \A r \in DOMAIN rooms \cup DOMAIN rooms' : LogOf(rooms', r) = LogOf(rooms, r)
        /\ lastMsg'.event = "ping" =>
              /\ emitted' = << Emit({lastMsg'.from}, "pong", lastMsg'.data) >>
              /\ rooms' = rooms ]_vars

\* a ping was answered in a room that has a log, a second member and a
\* sender whose presence entry is older than the ping
C34_PingInBusyRoom ==
    /\ lastMsg.event = "ping"
    /\ emitted = << Emit({lastMsg.from}, "pong", lastMsg.data) >>
    /\ LET r == currentRoom[lastMsg.from]
       IN  /\ LogOf(rooms, r) # << >>
           /\ RoomMembers(r) \ {lastMsg.from} # {}
           /\ lastMsg.from \in DOMAIN rooms[r].users
           /\ rooms[r].users[lastMsg.from].lastSeen < now

\* the ids client c has given to the operations it created (generateId)
LocalIds(c) == {GenId(c, k) : k \in 1..canvas[c].nextId}

\* the step handles a message of client c that makes the log of its room one
\* entry longer
AppendsFor(c) ==
    /\ \E event \in AppendEvents : Handles(c, event)
    /\ Len(LogOf(rooms', currentRoom[c])) = Len(LogOf(rooms, currentRoom[c])) + 1

\* C35: the entry the server appends for an operation a client created and
\* sent (stroke, erase stroke, shape, text, image) has the id the client gave
\* that operation, the id of the entry in the client's own mirror
C35_ServerKeepsClientId ==
    [][ \A c \in Conns :
          AppendsFor(c) =>
             LET post == LogOf(rooms', currentRoom[c])
             IN  post[Len(post)].id \in LocalIds(c) ]_vars

\* session c has an entry in the presence map of its current room
Present(c) ==
    /\ currentRoom[c] \in DOMAIN rooms
    /\ c \in DOMAIN rooms[currentRoom[c]].users

\* C36: every connected session is in the presence map of its current room
C36_ConnectedIsPresent ==
    \A c \in Conns : status[c] = "open" => Present(c)

\* the rooms whose presence map holds user c
PresentIn(c) == {r \in DOMAIN rooms : c \in DOMAIN rooms[r].users}

\* C37: a user is in the presence map of at most one room at a time (after a
\* valid join-room from A to a different room B it is no longer in the map of
\* A), and in the map of no room once it has disconnected
C37_PresentInOneRoom ==
    \A c \in Conns :
        /\ Cardinality(PresentIn(c)) <= 1
        /\ status[c] = "closed" => PresentIn(c) = {}

\* C38: after a set-name the sender's entry in the presence map of its
\* current room carries the new name, the one the other members were sent in
\* user-name-changed, so the Snapshot of a later joiner shows that name
C38_PresenceCarriesNewName ==
    lastMsg.event = "set-name" =>
        /\ Present(lastMsg.from)
        /\ rooms[currentRoom[lastMsg.from]].users[lastMsg.from].name = lastMsg.data.userName

\* C39: no operation id occurs more than once in the operations list of a
\* client, whatever local operations, remote deliveries, Snapshots, undos and
\* redos came before
C39_MirrorIdsUnique ==
    \A c \in Conns : \A i, j \in 1..Len(canvas[c].operations) :
        canvas[c].heap[canvas[c].operations[i]].id =
            canvas[c].heap[canvas[c].operations[j]].id => i = j
====
